---- MODULE Spec2Model ----
(***************************************************************************)
(* The WebSocket relay servers of sanity-io/agent-backend as one state     *)
(* machine.  The repository holds two server classes with the same shape:  *)
(*   LangGraphWebSocketServer  (src/src/server/langGraphWebSocketServer.ts)*)
(*   MCPWebSocketServer        (src/unnamed/part_004)                      *)
(* The variable impl says which class was constructed; it never changes.   *)
(* Handlers that are the same text in both classes are modelled once;      *)
(* handlers that differ are modelled once per class (suffix LG / MCP).     *)
(*                                                                         *)
(* A handler is a sequence of statements, so each is written as a function *)
(* from a record of the server's fields to the record after the handler,   *)
(* and an action commits the record the handler ends with.  The field out  *)
(* of that record is the trace of the last step: the event whose callback  *)
(* ran, then the callback's externally visible effects (frames put on a    *)
(* socket, writes to the session store, removals from the registry), in    *)
(* program order.                                                          *)
(***************************************************************************)
EXTENDS Integers, Sequences, FiniteSets, TLC

VARIABLES
  impl,        \* "LG" or "MCP": the class that was constructed
  now,         \* Date.now() in ms
  nextId,      \* the next connection gets client id nextId
  clients,     \* keys of the clients Map
  cobj,        \* the Client objects, by client id (also of removed clients)
  ws,          \* readyState of each client's socket: OPEN, CLOSING, DONE
  sessions,    \* the sessions Map: session id -> SessionState
  agentState,  \* the server's agentState field
  arrays,      \* heap of the currentSelection arrays, by reference
  pending,     \* handleUserMessage calls suspended at await agent.generate()
  timers,      \* pending setTimeout callbacks of handleDocumentFocus (FIFO)
  startup,     \* the startWebSocketServer call that constructed the server
  agent,       \* the object SanityAgentAdapter.state refers to (LangGraph)
  inbox,       \* per socket: frames read off the wire, "message" not yet emitted
  out          \* effects of the last step, in program order

vars == <<impl, now, nextId, clients, cobj, ws, sessions, agentState, arrays,
          pending, timers, startup, agent, inbox, out>>

----------------------------------------------------------------------------
(* Program constants *)

MAX_DOCUMENTS == 10
MAX_RECONNECT_ATTEMPTS == 3
RECONNECT_BASE_DELAY == 1000
SESSION_EXPIRY == 60 * 60 * 1000
WS_PORT == 3002

(* Encodings of the optional values of the source *)
NoSession == -1      \* Client.sessionId undefined
NoRequest == 0       \* WebSocketMessage.requestId undefined
NoDoc == 0           \* documentId undefined
NoPath == ""         \* path undefined
UnknownSession == -2 \* a session id the server never minted
PortLimit == 65535   \* the largest port number listen() accepts

(* Bounds of the exploration *)
MaxClients == 2      \* connections accepted in a run
MaxInbox == 2        \* frames a socket holds before their events are emitted
MaxInFlight == 2     \* user messages read off the sockets and not yet answered
MaxOpen == 1         \* connections whose close event has not been handled yet
MaxNow == 1          \* the clock advances by 1 ms up to this value
MaxPending == 1      \* generate() calls in flight
MaxTimers == 1       \* "completed" timers not yet fired
MaxMessages == 5     \* entries of the adapter's messages array
SelMaxDocId == 11    \* document ids 1..SelMaxDocId of the selection scenario
SelRefocus == 1      \* documents 1..SelRefocus are focused again at any time
ExpSlack == 1        \* the expiry scenario's clock runs to SESSION_EXPIRY + ExpSlack
PairDocs == 2        \* document ids 1..PairDocs of the two-connection scenario
PortSpan == 2        \* ports WS_PORT..WS_PORT + PortSpan can be in use at start-up
MaxRetries == 1      \* startWebSocketServer is called with maxRetries 0..MaxRetries

----------------------------------------------------------------------------
(* The server's fields as one record, threaded through a handler *)

St ==
  [clients |-> clients, cobj |-> cobj, ws |-> ws, sessions |-> sessions,
   agentState |-> agentState, arrays |-> arrays, pending |-> pending,
   timers |-> timers, agent |-> agent, inbox |-> inbox, out |-> <<>>]

Emit(st, e) == [st EXCEPT !.out = Append(@, e)]

(* the server's fields when the event loop runs the callback of event e *)
On(e) == Emit(St, e)

(* WebSocket.send of the ws package: the frame goes out iff the socket is OPEN
   (a send on a closing or closed socket is dropped without throwing) *)
wsSend(st, c, msg) ==
  IF st.ws[c] = "OPEN" THEN Emit(st, [ev |-> "send", to |-> c, msg |-> msg]) ELSE st

(* WebSocket.terminate: the socket is destroyed; its close event follows later *)
wsTerminate(st, c) ==
  Emit([st EXCEPT !.ws[c] = IF @ = "DONE" THEN "DONE" ELSE "CLOSING"],
       [ev |-> "terminate", c |-> c])

sendToClient(st, c, msg) ==
  IF c \notin st.clients THEN st ELSE wsSend(st, c, msg)

(* clients.forEach(client => if OPEN then send), in insertion order *)
RECURSIVE broadcastFrom(_, _, _)
broadcastFrom(st, c, msg) ==
  IF c \notin DOMAIN st.ws THEN st
  ELSE broadcastFrom(IF c \in st.clients THEN wsSend(st, c, msg) ELSE st, c + 1, msg)

(* variant: only the first connection of the registry is sent the frame *)
broadcastFirstOnly(st, msg) ==
  IF 1 \in st.clients THEN wsSend(st, 1, msg) ELSE st

broadcast(st, msg) == broadcastFrom(st, 1, msg)

(* clients.delete(clientId).  The Client object stays reachable only from the
   closures of suspended handleUserMessage calls, which read its sessionId. *)
DeadClient(sid) ==
  [sessionId |-> sid, lastActive |-> 0, isAlive |-> FALSE, reconnectAttempts |-> 0]

clientsDelete(st, c) ==
  IF c \notin st.clients THEN st
  ELSE Emit([st EXCEPT !.clients = @ \ {c},
                       !.cobj[c] = DeadClient(@.sessionId)],
            [ev |-> "delete", c |-> c])

----------------------------------------------------------------------------
(* Frames *)

Frame(type, requestId, payload) ==
  [type |-> type, requestId |-> requestId, payload |-> payload]

DocIds(st) ==
  LET a == st.arrays[st.agentState.currentSelection]
  IN  [i \in 1..Len(a) |-> a[i].id]

DocumentSetUpdate(st, sessionInfo) ==
  Frame("document_set_update", NoRequest,
        [documents |-> DocIds(st), session |-> sessionInfo])

(* sendAgentState: the session info is the client's own session id when it has
   one, else the server-wide agentState.session *)
sendAgentState(st, c) ==
  LET sid == IF c \in st.clients /\ st.cobj[c].sessionId # NoSession
             THEN st.cobj[c].sessionId
             ELSE st.agentState.session.id
  IN  sendToClient(st, c, DocumentSetUpdate(st, [id |-> sid, reconnected |-> FALSE]))

broadcastDocumentSet(st) ==
  broadcast(st, DocumentSetUpdate(st, [id |-> st.agentState.session.id,
                                       reconnected |-> FALSE]))

----------------------------------------------------------------------------
(* Session store *)

(* variant: a session expires when its age reaches the window *)
ExpiredAtWindow(session, t) == t - session.lastActive >= SESSION_EXPIRY

(* variant: a session expires by its age since creation *)
ExpiredByCreatedAt(session, t) == t - session.createdAt > SESSION_EXPIRY

Expired(session, t) == t - session.lastActive > SESSION_EXPIRY

cleanupExpiredSessions(st) ==
  LET keep == {s \in DOMAIN st.sessions : ~Expired(st.sessions[s], now)}
  IN  Emit([st EXCEPT !.sessions = [s \in keep |-> st.sessions[s]]],
           [ev |-> "cleanup",
            expiredCount |-> Cardinality(DOMAIN st.sessions \ keep)])

SessionState(snapshot, c) ==
  [agentState |-> snapshot, lastClientId |-> c, createdAt |-> now, lastActive |-> now]

sessionsSet(st, sid, rec) ==
  [st EXCEPT !.sessions =
     [s \in DOMAIN st.sessions \cup {sid} |-> IF s = sid THEN rec ELSE st.sessions[s]]]

(* LangGraph: stores the object agent.getState() returns, then sweeps *)
preserveSessionStateLG(st, c, sid) ==
  cleanupExpiredSessions(
    Emit(sessionsSet(st, sid, SessionState([adapter |-> "state"], c)),
         [ev |-> "preserve", sid |-> sid, c |-> c]))

(* MCP: returns when the client is not registered; stores {...this.agentState},
   a shallow copy that shares the currentSelection array with the live state *)
preserveSessionStateMCP(st, c, sid) ==
  IF c \notin st.clients THEN st
  ELSE Emit(sessionsSet(st, sid, SessionState(st.agentState, c)),
            [ev |-> "preserve", sid |-> sid, c |-> c])

preserveSessionState(st, c, sid) ==
  IF impl = "LG" THEN preserveSessionStateLG(st, c, sid)
  ELSE preserveSessionStateMCP(st, c, sid)

----------------------------------------------------------------------------
(* Committing a handler's result *)

SnapshotRefs(ss) ==
  IF impl = "MCP" THEN {ss[s].agentState.currentSelection : s \in DOMAIN ss} ELSE {}

(* a reference for a new array that replaces the live one *)
NewRef(st) ==
  LET used == SnapshotRefs(st.sessions)
  IN  CHOOSE r \in 1..(Cardinality(used) + 1) :
        r \notin used /\ \A q \in 1..(r - 1) : q \in used

Commit(st) ==
  LET live == {st.agentState.currentSelection} \cup SnapshotRefs(st.sessions)
      held == {st.pending[i].c : i \in 1..Len(st.pending)}
  IN  /\ clients' = st.clients
      /\ cobj' = [c \in DOMAIN st.cobj |->
                    IF c \in st.clients \/ c \in held THEN st.cobj[c]
                    ELSE DeadClient(NoSession)]
      /\ ws' = st.ws
      /\ sessions' = st.sessions
      /\ agentState' = st.agentState
      /\ arrays' = [r \in live |-> st.arrays[r]]
      /\ pending' = st.pending
      /\ timers' = st.timers
      /\ agent' = st.agent
      /\ inbox' = st.inbox
      /\ out' = st.out
      /\ UNCHANGED startup

InitialAgentState ==
  [currentSelection |-> 1,
   userFocus |-> [documentId |-> NoDoc, path |-> NoPath],
   session |-> [id |-> 0]]

(* createInitialState(), then initialize() pushes the system prompt; of the
   state the length of its messages array and sessionInfo.lastActivity are
   kept.  The Mastra agent of the MCP class keeps no state in this
   repository. *)
InitialAdapterState ==
  [messages |-> IF impl = "LG" THEN 1 ELSE 0, lastActivity |-> 0]

(* no error was thrown *)
NoError == [class |-> "none", code |-> "none"]

(* the server was constructed on a free WS_PORT and is listening *)
Started ==
  [phase |-> "returned", port |-> WS_PORT, busy |-> {}, retriesLeft |-> 0,
   calls |-> <<[port |-> WS_PORT, thrown |-> NoError]>>, thrown |-> NoError,
   event |-> "none", logged |-> 0]

Init ==
  /\ impl \in {"LG", "MCP"}
  /\ now = 0
  /\ nextId = 1
  /\ clients = {}
  /\ cobj = <<>>
  /\ ws = <<>>
  /\ sessions = <<>>
  /\ agentState = InitialAgentState
  /\ arrays = (1 :> <<>>)
  /\ pending = <<>>
  /\ timers = <<>>
  /\ startup = Started
  /\ agent = InitialAdapterState
  /\ inbox = <<>>
  /\ out = <<>>

----------------------------------------------------------------------------
(* Environment: the clock, and the transport *)

Advance(d, limit) ==
  /\ now + d <= limit
  /\ now' = now + d
  /\ out' = <<>>
  /\ UNCHANGED <<impl, nextId, clients, cobj, ws, sessions, agentState, arrays,
                 pending, timers, startup, agent, inbox>>

(* server.on("connection") *)
Connect(maxClients, maxOpen) ==
  /\ nextId <= maxClients
  /\ Cardinality({q \in DOMAIN ws : ws[q] # "DONE"}) < maxOpen
  /\ LET c == nextId
         st0 == [On([ev |-> "connection", c |-> c]) EXCEPT
                   !.clients = @ \cup {c},
                   !.cobj = Append(@, [sessionId |-> NoSession, lastActive |-> now,
                                       isAlive |-> TRUE, reconnectAttempts |-> 0]),
                   !.ws = Append(@, "OPEN"),
                   !.inbox = Append(@, <<>>)]
     IN  Commit(sendAgentState(st0, c))
  /\ nextId' = nextId + 1
  /\ UNCHANGED <<impl, now>>

(* the peer closes, or the network drops: the socket leaves OPEN and its close
   event is due *)
SocketClosing(c) ==
  /\ c \in DOMAIN ws /\ ws[c] = "OPEN"
  /\ ws' = [ws EXCEPT ![c] = "CLOSING"]
  /\ out' = <<>>
  /\ UNCHANGED <<impl, now, nextId, clients, cobj, sessions, agentState, arrays,
                 pending, timers, startup, agent, inbox>>

(* variant: the handler uses the Client object of its closure instead of
   looking the connection up in the registry *)
closeHandlerNoLookup(st, c) ==
  LET sid == st.cobj[c].sessionId
      st1 == IF sid # NoSession THEN preserveSessionState(st, c, sid) ELSE st
  IN  clientsDelete(st1, c)

(* ws.on("close") *)
closeHandler(st, c) ==
  LET sid == st.cobj[c].sessionId
      st1 == IF c \in st.clients /\ sid # NoSession
             THEN preserveSessionState(st, c, sid) ELSE st
  IN  clientsDelete(st1, c)

CloseEvent(c) ==
  /\ c \in DOMAIN ws /\ ws[c] = "CLOSING"
  /\ Commit(closeHandler([On([ev |-> "close", c |-> c]) EXCEPT !.ws[c] = "DONE"], c))
  /\ UNCHANGED <<impl, now, nextId>>

----------------------------------------------------------------------------
(* Heartbeat *)

Ping == Frame("ping", NoRequest, [timestamp |-> now])

heartbeatClientLG(st, c) ==
  IF ~st.cobj[c].isAlive THEN wsTerminate(st, c)
  ELSE wsSend([st EXCEPT !.cobj[c].isAlive = FALSE], c, Ping)

heartbeatClientMCP(st, c) ==
  IF ~st.cobj[c].isAlive THEN clientsDelete(wsTerminate(st, c), c)
  ELSE sendToClient([st EXCEPT !.cobj[c].isAlive = FALSE], c, Ping)

RECURSIVE heartbeatFrom(_, _)
heartbeatFrom(st, c) ==
  IF c \notin DOMAIN st.ws THEN st
  ELSE heartbeatFrom(
         IF c \notin st.clients THEN st
         ELSE IF impl = "LG" THEN heartbeatClientLG(st, c)
         ELSE heartbeatClientMCP(st, c),
         c + 1)

(* the setInterval callback of setupHeartbeat *)
HeartbeatLG ==
  /\ impl = "LG"
  /\ Commit(heartbeatFrom(On([ev |-> "heartbeat"]), 1))
  /\ UNCHANGED <<impl, now, nextId>>

HeartbeatMCP ==
  /\ impl = "MCP"
  /\ Commit(cleanupExpiredSessions(heartbeatFrom(On([ev |-> "heartbeat"]), 1)))
  /\ UNCHANGED <<impl, now, nextId>>

(* LangGraph constructor: setInterval(() => this.cleanupExpiredSessions(), SESSION_EXPIRY) *)
SessionCleanupTimer ==
  /\ impl = "LG"
  /\ Commit(cleanupExpiredSessions(On([ev |-> "interval"])))
  /\ UNCHANGED <<impl, now, nextId>>

----------------------------------------------------------------------------
(* Document focus *)

arraysSet(st, r, a) ==
  [st EXCEPT !.arrays = [q \in DOMAIN st.arrays \cup {r} |->
                           IF q = r THEN a ELSE st.arrays[q]]]

IndexOf(a, d) == CHOOSE i \in 1..Len(a) : a[i].id = d /\ \A j \in 1..(i - 1) : a[j].id # d

RemoveAt(a, i) == SubSeq(a, 1, i - 1) \o SubSeq(a, i + 1, Len(a))

(* identity of a new DocumentReference object: (id, gen), gen the least
   generation no reachable object of that id carries *)
NewGen(st, d) ==
  LET taken == UNION {{st.arrays[r][i].gen :
                         i \in {j \in 1..Len(st.arrays[r]) : st.arrays[r][j].id = d}} :
                      r \in DOMAIN st.arrays}
  IN  CHOOSE g \in 1..(Cardinality(taken) + 1) :
        g \notin taken /\ \A h \in 1..(g - 1) : h \in taken

(* doc.path = path; doc.lastModified = now: the object is shared by every array
   that holds it *)
touchDoc(st, doc, path) ==
  [st EXCEPT !.arrays =
     [r \in DOMAIN st.arrays |->
        [i \in 1..Len(st.arrays[r]) |->
           IF st.arrays[r][i].id = doc.id /\ st.arrays[r][i].gen = doc.gen
           THEN [st.arrays[r][i] EXCEPT !.path = path, !.lastModified = now]
           ELSE st.arrays[r][i]]]]

(* variant: the cap keeps the last MAX_DOCUMENTS entries, slice(-MAX_DOCUMENTS) *)
insertDocumentKeepLast(st, d, path) ==
  LET ref == st.agentState.currentSelection
      doc == [id |-> d, gen |-> NewGen(st, d), path |-> path, lastModified |-> now]
      st1 == arraysSet(st, ref, <<doc>> \o st.arrays[ref])
      n   == Len(st1.arrays[ref])
  IN  IF n > MAX_DOCUMENTS
      THEN LET r == NewRef(st1)
           IN  [arraysSet(st1, r, SubSeq(st1.arrays[ref], n - MAX_DOCUMENTS + 1, n))
                  EXCEPT !.agentState.currentSelection = r]
      ELSE st1

(* currentSelection.unshift(...), then the slice to MAX_DOCUMENTS *)
insertDocument(st, d, path) ==
  LET ref == st.agentState.currentSelection
      doc == [id |-> d, gen |-> NewGen(st, d), path |-> path, lastModified |-> now]
      st1 == arraysSet(st, ref, <<doc>> \o st.arrays[ref])
  IN  IF Len(st1.arrays[ref]) > MAX_DOCUMENTS
      THEN LET r == NewRef(st1)
           IN  [arraysSet(st1, r, SubSeq(st1.arrays[ref], 1, MAX_DOCUMENTS))
                  EXCEPT !.agentState.currentSelection = r]
      ELSE st1

(* variant: the entry is put at the front without being spliced out *)
moveToFrontNoSplice(st, d, path) ==
  LET ref == st.agentState.currentSelection
      i   == IndexOf(st.arrays[ref], d)
      st1 == touchDoc(st, st.arrays[ref][i], path)
      a   == st1.arrays[ref]
  IN  arraysSet(st1, ref, <<a[i]>> \o a)

(* update in place, splice(docIndex, 1), unshift(doc) *)
moveToFront(st, d, path) ==
  LET ref == st.agentState.currentSelection
      i   == IndexOf(st.arrays[ref], d)
      st1 == touchDoc(st, st.arrays[ref][i], path)
      a   == st1.arrays[ref]
  IN  arraysSet(st1, ref, <<a[i]>> \o RemoveAt(a, i))

ThinkingState(d, action) ==
  Frame("thinking_state", NoRequest, [documentId |-> d, action |-> action])

(* variant: the timer is armed only for a document that was not selected *)
handleDocumentFocusTimerOnInsert(st, d, path) ==
  LET st1 == [st EXCEPT !.agentState.userFocus = [documentId |-> d, path |-> path]]
      st2 == broadcast(st1, ThinkingState(d, "analyzing_document"))
      a   == st2.arrays[st2.agentState.currentSelection]
      inSelection == \E i \in 1..Len(a) : a[i].id = d
      st3 == IF ~inSelection /\ d # NoDoc
             THEN broadcastDocumentSet(insertDocument(st2, d, path))
             ELSE IF inSelection
             THEN broadcastDocumentSet(moveToFront(st2, d, path))
             ELSE st2
  IN  IF inSelection THEN st3 ELSE [st3 EXCEPT !.timers = Append(@, d)]

(* variant: the document set goes out before the thinking_state *)
handleDocumentFocusSetFirst(st, d, path) ==
  LET st1 == [st EXCEPT !.agentState.userFocus = [documentId |-> d, path |-> path]]
      a   == st1.arrays[st1.agentState.currentSelection]
      inSelection == \E i \in 1..Len(a) : a[i].id = d
      st2 == IF ~inSelection /\ d # NoDoc
             THEN broadcastDocumentSet(insertDocument(st1, d, path))
             ELSE IF inSelection
             THEN broadcastDocumentSet(moveToFront(st1, d, path))
             ELSE st1
      st3 == broadcast(st2, ThinkingState(d, "analyzing_document"))
  IN  [st3 EXCEPT !.timers = Append(@, d)]

handleDocumentFocus(st, d, path) ==
  LET st1 == [st EXCEPT !.agentState.userFocus = [documentId |-> d, path |-> path]]
      st2 == broadcast(st1, ThinkingState(d, "analyzing_document"))
      a   == st2.arrays[st2.agentState.currentSelection]
      inSelection == \E i \in 1..Len(a) : a[i].id = d
      st3 == IF ~inSelection /\ d # NoDoc
             THEN broadcastDocumentSet(insertDocument(st2, d, path))
             ELSE IF inSelection
             THEN broadcastDocumentSet(moveToFront(st2, d, path))
             ELSE st2
  IN  [st3 EXCEPT !.timers = Append(@, d)]

(* the setTimeout(..., 1500) callback *)
TimerFire ==
  /\ timers # <<>>
  /\ Commit(broadcast([On([ev |-> "timeout", d |-> Head(timers)]) EXCEPT
                         !.timers = Tail(@)],
                      ThinkingState(Head(timers), "completed")))
  /\ UNCHANGED <<impl, now, nextId>>

----------------------------------------------------------------------------
(* User messages *)

ErrorFrame(requestId, payload) == Frame("error", requestId, payload)

(* SanityAgentAdapter.generate up to its await: the user message is pushed
   onto state.messages *)
generateCall(st) ==
  IF impl = "LG"
  THEN [st EXCEPT !.agent.messages = @ + 1, !.agent.lastActivity = now]
  ELSE st

(* the text generate returns when model.invoke failed *)
GenerateErrorText == "I encountered an error processing your request"

(* SanityAgentAdapter.generate after its await: the response is pushed, unless
   model.invoke failed and the catch block returned the error text *)
generateReturn(st, t) ==
  IF impl = "LG" /\ t # GenerateErrorText
  THEN [st EXCEPT !.agent.messages = @ + 1, !.agent.lastActivity = now]
  ELSE st

(* variant: every user message mints a session id *)
handleUserMessageAlwaysMints(st, c, requestId) ==
  LET st1 == [st EXCEPT !.cobj[c].sessionId = now,
                        !.agentState.session = [id |-> now]]
      st2 == preserveSessionState(st1, c, st1.cobj[c].sessionId)
      st3 == sendToClient(st2, c, Frame("thinking_state", requestId,
                                        [state |-> "processing"]))
  IN  Emit(generateCall([st3 EXCEPT !.pending =
                                      Append(@, [c |-> c, requestId |-> requestId])]),
           [ev |-> "generate", c |-> c])

(* variant: the session is not written before generate is invoked *)
handleUserMessageNoPreserve(st, c, requestId) ==
  LET mint == st.cobj[c].sessionId = NoSession
      st1 == IF mint
             THEN [st EXCEPT !.cobj[c].sessionId = now,
                             !.agentState.session = [id |-> now]]
             ELSE st
      st3 == sendToClient(st1, c, Frame("thinking_state", requestId,
                                        [state |-> "processing"]))
  IN  Emit(generateCall([st3 EXCEPT !.pending =
                                      Append(@, [c |-> c, requestId |-> requestId])]),
           [ev |-> "generate", c |-> c])

(* handleUserMessage up to its await *)
handleUserMessage(st, c, requestId) ==
  LET mint == st.cobj[c].sessionId = NoSession
      st1 == IF mint
             THEN [st EXCEPT !.cobj[c].sessionId = now,
                             !.agentState.session = [id |-> now]]
             ELSE st
      st2 == preserveSessionState(st1, c, st1.cobj[c].sessionId)
      st3 == sendToClient(st2, c, Frame("thinking_state", requestId,
                                        [state |-> "processing"]))
  IN  Emit(generateCall([st3 EXCEPT !.pending =
                                      Append(@, [c |-> c, requestId |-> requestId])]),
           [ev |-> "generate", c |-> c])

(* what the server sends as payload.message: LangGraph sends the string that
   generate returns; MCP sends response.text || response.toString() *)
responseTextLG(t) == t
responseTextMCP(t) == IF t # "" THEN t ELSE "[object Object]"

(* variant: a failure after the reply has gone out also sends the error *)
afterGenerateThenError(st, p, t) ==
  LET text == IF impl = "LG" THEN responseTextLG(t) ELSE responseTextMCP(t)
      payload == IF impl = "LG" THEN [message |-> text, timestamp |-> now]
                 ELSE [message |-> text]
      st1 == sendToClient(generateReturn(st, t), p.c,
                          Frame("agent_message", p.requestId, payload))
  IN  sendToClient(st1, p.c,
                   ErrorFrame(p.requestId,
                              [message |-> "Failed to process your message"]))

(* variant: the reply goes to every open connection *)
afterGenerateBroadcast(st, p, t) ==
  LET text == IF impl = "LG" THEN responseTextLG(t) ELSE responseTextMCP(t)
      payload == IF impl = "LG" THEN [message |-> text, timestamp |-> now]
                 ELSE [message |-> text]
      st1 == broadcast(generateReturn(st, t),
                       Frame("agent_message", p.requestId, payload))
      sid == st1.cobj[p.c].sessionId
  IN  IF sid # NoSession THEN preserveSessionState(st1, p.c, sid) ELSE st1

(* handleUserMessage after generate resolved with text t *)
afterGenerate(st, p, t) ==
  LET text == IF impl = "LG" THEN responseTextLG(t) ELSE responseTextMCP(t)
      payload == IF impl = "LG" THEN [message |-> text, timestamp |-> now]
                 ELSE [message |-> text]
      st1 == sendToClient(generateReturn(st, t), p.c,
                          Frame("agent_message", p.requestId, payload))
      sid == st1.cobj[p.c].sessionId
  IN  IF sid # NoSession THEN preserveSessionState(st1, p.c, sid) ELSE st1

(* variant: the error reply does not carry the request id *)
generateFailedNoRequestId(st, p) ==
  sendToClient(st, p.c, ErrorFrame(NoRequest,
                                   [message |-> "Failed to process your message"]))

(* the catch block of handleUserMessage *)
generateFailed(st, p) ==
  sendToClient(st, p.c, ErrorFrame(p.requestId,
                                   [message |-> "Failed to process your message"]))

GenerateResolve(i, t) ==
  /\ i \in 1..Len(pending)
  /\ Commit(afterGenerate([On([ev |-> "resolved", c |-> pending[i].c,
                               requestId |-> pending[i].requestId, text |-> t])
                           EXCEPT !.pending = RemoveAt(@, i)], pending[i], t))
  /\ UNCHANGED <<impl, now, nextId>>

(* SanityAgentAdapter.generate catches every error and resolves; only the
   Mastra agent of MCPWebSocketServer can reject *)
GenerateReject(i) ==
  /\ impl = "MCP"
  /\ i \in 1..Len(pending)
  /\ Commit(generateFailed([On([ev |-> "rejected", c |-> pending[i].c,
                                 requestId |-> pending[i].requestId])
                             EXCEPT !.pending = RemoveAt(@, i)], pending[i]))
  /\ UNCHANGED <<impl, now, nextId>>

----------------------------------------------------------------------------
(* Reconnection *)

handleReconnectionLG(st, c, sid) ==
  IF sid \notin DOMAIN st.sessions
  THEN sendToClient(st, c, ErrorFrame(NoRequest,
                                      [message |-> "Session not found or expired",
                                       code |-> "SESSION_NOT_FOUND"]))
  ELSE LET st1 == Emit([st EXCEPT !.cobj[c].sessionId = sid],
                       [ev |-> "setState", sid |-> sid])
           st2 == [st1 EXCEPT !.sessions[sid].lastActive = now,
                              !.sessions[sid].lastClientId = c]
       IN  sendToClient(st2, c, DocumentSetUpdate(st2, [id |-> sid,
                                                         reconnected |-> TRUE]))

handleReconnectionMCP(st, c, sid) ==
  IF sid \in DOMAIN st.sessions
  THEN LET st1 == [st EXCEPT !.agentState = st.sessions[sid].agentState,
                             !.cobj[c].sessionId = sid,
                             !.sessions[sid].lastActive = now,
                             !.sessions[sid].lastClientId = c]
           st2 == sendAgentState(st1, c)
       IN  sendToClient(st2, c,
             Frame("agent_message", NoRequest,
                   [message |-> "Reconnected successfully. Your previous conversation state has been restored.",
                    sessionRestored |-> TRUE]))
  ELSE LET r   == NewRef(st)
           st1 == [arraysSet(st, r, <<>>) EXCEPT
                     !.cobj[c].sessionId = now,
                     !.agentState = [currentSelection |-> r,
                                     userFocus |-> [documentId |-> NoDoc, path |-> NoPath],
                                     session |-> [id |-> now]]]
           st2 == preserveSessionStateMCP(st1, c, now)
           st3 == sendAgentState(st2, c)
       IN  sendToClient(st3, c,
             Frame("agent_message", NoRequest,
                   [message |-> "Your previous session could not be found. A new session has been created.",
                    sessionRestored |-> FALSE, newSessionId |-> now]))

handleReconnection(st, c, sid) ==
  IF impl = "LG" THEN handleReconnectionLG(st, c, sid)
  ELSE handleReconnectionMCP(st, c, sid)

----------------------------------------------------------------------------
(* Socket errors *)

ReconnectRequest(message, sid, withDelay, attempts) ==
  ErrorFrame(NoRequest,
             [message |-> message, code |-> "CONNECTION_ERROR", reconnect |-> TRUE,
              sessionId |-> sid,
              delay |-> IF withDelay THEN RECONNECT_BASE_DELAY * attempts ELSE 0])

(* variant: the connection is given up at the third attempt *)
attemptClientRecoveryLGCapAtThree(st, c) ==
  IF c \notin st.clients THEN st
  ELSE LET st1 == [st EXCEPT !.cobj[c].reconnectAttempts = @ + 1]
       IN  IF st1.cobj[c].reconnectAttempts >= MAX_RECONNECT_ATTEMPTS
           THEN clientsDelete(wsTerminate(st1, c), c)
           ELSE wsSend(st1, c,
                       ReconnectRequest("Connection error, please reconnect",
                                        st1.cobj[c].sessionId, FALSE, 0))

attemptClientRecoveryLG(st, c) ==
  IF c \notin st.clients THEN st
  ELSE LET st1 == [st EXCEPT !.cobj[c].reconnectAttempts = @ + 1]
       IN  IF st1.cobj[c].reconnectAttempts > MAX_RECONNECT_ATTEMPTS
           THEN clientsDelete(wsTerminate(st1, c), c)
           ELSE wsSend(st1, c,
                       ReconnectRequest("Connection error, please reconnect",
                                        st1.cobj[c].sessionId, FALSE, 0))

(* ws.close(1006, ...) leaves the socket in CLOSING: the ws package sets the
   readyState before it validates the code *)
wsClose(st, c) == [st EXCEPT !.ws[c] = IF @ = "OPEN" THEN "CLOSING" ELSE @]

attemptClientRecoveryMCP(st, c) ==
  IF c \notin st.clients THEN st
  ELSE LET st1 == [st EXCEPT !.cobj[c].reconnectAttempts = @ + 1]
           n   == st1.cobj[c].reconnectAttempts
           sid == st1.cobj[c].sessionId
       IN  IF n <= MAX_RECONNECT_ATTEMPTS
           THEN LET st2 == IF sid # NoSession
                           THEN preserveSessionStateMCP(st1, c, sid) ELSE st1
                IN  IF st2.ws[c] = "OPEN"
                    THEN wsClose(sendToClient(st2, c,
                           ReconnectRequest("Connection error detected, please reconnect",
                                            sid, TRUE, n)), c)
                    ELSE st2
           ELSE clientsDelete(st1, c)

attemptClientRecovery(st, c) ==
  IF impl = "LG" THEN attemptClientRecoveryLG(st, c)
  ELSE attemptClientRecoveryMCP(st, c)

(* errors the transport raises, by their JavaScript name and message *)
ErrReset    == [name |-> "Error", message |-> "read ECONNRESET"]
ErrProtocol == [name |-> "RangeError", message |-> "Invalid WebSocket frame: invalid opcode 3"]

(* system errors of Node carry the OS error code in error.code and in the
   message, "<syscall> <code> ..."; their name is "Error" *)
ErrRefused  == [name |-> "Error", message |-> "connect ECONNREFUSED 127.0.0.1:3002"]
ErrTimedOut == [name |-> "Error", message |-> "read ETIMEDOUT"]

(* errors without an OS code, told by their message *)
ErrRefusedText == [name |-> "Error", message |-> "Connection refused"]
ErrTimeoutText == [name |-> "Error", message |-> "socket timeout"]

(* normalizeError(error).code for a plain Error *)
normalizedCode(err) ==
  IF err.name = "Error" THEN "UNKNOWN_ERROR"
  ELSE IF err.name = "RangeError" THEN "RANGEERROR"
  ELSE IF err.name = "SyntaxError" THEN "SYNTAXERROR"
  ELSE "TYPEERROR"

recoverableCodes ==
  {"ECONNRESET", "ECONNREFUSED", "ETIMEDOUT", "EPIPE", "ENOTFOUND",
   "NETWORK_ERROR", "CONNECTION_ERROR"}

(* the messages of the errors above that one of recoverablePatterns matches:
   /econnreset/i matches "read ECONNRESET", /connection.*refused/i matches
   "Connection refused", /timeout/i matches "socket timeout"; no pattern
   matches "connect ECONNREFUSED 127.0.0.1:3002" or "read ETIMEDOUT" *)
matchesRecoverablePattern(message) ==
  message \in {"read ECONNRESET", "Connection refused", "socket timeout"}

isRecoverableConnectionError(err) ==
  \/ normalizedCode(err) \in recoverableCodes
  \/ matchesRecoverablePattern(err.message)

(* ws.on("error") *)
SocketError(c, err) ==
  /\ c \in DOMAIN ws /\ ws[c] \in {"OPEN", "CLOSING"}
  /\ LET st == On([ev |-> "error", c |-> c, err |-> err])
     IN  Commit(IF isRecoverableConnectionError(err)
                THEN attemptClientRecovery(st, c) ELSE st)
  /\ UNCHANGED <<impl, now, nextId>>

----------------------------------------------------------------------------
(* Start-up: startWebSocketServer and the constructor's try/catch *)

(* the errors listen() raises: the system error of a failed bind, and the
   RangeError for a port out of range *)
ErrAddrInUse ==
  [name |-> "Error", message |-> "listen EADDRINUSE: address already in use"]
ErrBadPort ==
  [name |-> "RangeError", message |-> "options.port should be >= 0 and < 65536"]

(* normalizeError of an error that is not an AppError: the code is derived
   from the error's name, the error's own code is not copied *)
normalizeError(error) == [class |-> "AppError", code |-> normalizedCode(error)]

(* the catch block of the constructor: what the constructor throws *)
constructorCatch(error) ==
  LET normalizedError == normalizeError(error)
  IN  IF normalizedError.code = "EADDRINUSE"
      THEN [class |-> "ConnectionError", code |-> "PORT_IN_USE"]
      ELSE normalizedError

(* new LangGraphWebSocketServer(port, agent).  new WebSocketServer({ port })
   throws for a port out of range.  A bind failure is reported by the
   server's "error" event after the constructor has returned; sync stands for
   a runtime that throws it from listen() instead. *)
newServer(port, busy, sync) ==
  IF port > PortLimit
  THEN [thrown |-> constructorCatch(ErrBadPort), event |-> "none"]
  ELSE IF port \in busy /\ sync
  THEN [thrown |-> constructorCatch(ErrAddrInUse), event |-> "none"]
  ELSE [thrown |-> NoError, event |-> IF port \in busy THEN "error" ELSE "listening"]

(* the while loop of startWebSocketServer; calls lists the constructor calls
   made, each with its port and what it threw *)
RECURSIVE startLoop(_, _, _, _, _)
startLoop(currentPort, retriesLeft, busy, sync, calls) ==
  LET r == newServer(currentPort, busy, sync)
      calls1 == Append(calls, [port |-> currentPort, thrown |-> r.thrown])
  IN  IF r.thrown = NoError
      THEN [phase |-> "returned", port |-> currentPort, busy |-> busy,
            retriesLeft |-> retriesLeft, calls |-> calls1, thrown |-> NoError,
            event |-> r.event, logged |-> 0]
      ELSE IF r.thrown.code = "EADDRINUSE" /\ retriesLeft > 0
      THEN startLoop(currentPort + 1, retriesLeft - 1, busy, sync, calls1)
      ELSE [phase |-> "threw", port |-> currentPort, busy |-> busy,
            retriesLeft |-> retriesLeft, calls |-> calls1,
            thrown |-> IF retriesLeft <= 0
                       THEN [class |-> "Error", code |-> "none"]
                       ELSE r.thrown,
            event |-> "none", logged |-> 0]

(* before startWebSocketServer(port, agent, maxRetries) is called, with the
   ports in busy bound by other processes *)
NotStarted(port, maxRetries, busy) ==
  [phase |-> "idle", port |-> port, busy |-> busy, retriesLeft |-> maxRetries,
   calls |-> <<>>, thrown |-> NoError, event |-> "none", logged |-> 0]

StartWebSocketServer ==
  /\ startup.phase = "idle"
  /\ \E sync \in BOOLEAN :
       startup' = startLoop(startup.port, startup.retriesLeft, startup.busy,
                            sync, <<>>)
  /\ UNCHANGED <<impl, now, nextId, clients, cobj, ws, sessions, agentState,
                 arrays, pending, timers, agent, inbox, out>>

(* server.on("listening"): logs *)
ServerListening ==
  /\ startup.event = "listening"
  /\ startup' = [startup EXCEPT !.event = "none"]
  /\ UNCHANGED <<impl, now, nextId, clients, cobj, ws, sessions, agentState,
                 arrays, pending, timers, agent, inbox, out>>

(* server.on("error"): logs the normalized error, and nothing else *)
ServerError ==
  /\ startup.event = "error"
  /\ startup' = [startup EXCEPT !.event = "none", !.logged = @ + 1]
  /\ UNCHANGED <<impl, now, nextId, clients, cobj, ws, sessions, agentState,
                 arrays, pending, timers, agent, inbox, out>>

----------------------------------------------------------------------------
(* Inbound frames *)

(* what a client can put on the wire: text that is not JSON, or a frame *)
InvalidJson == [valid |-> FALSE]

ClientFrame(type, requestId, sessionId, hasPayload, documentId, path) ==
  [valid |-> TRUE, type |-> type, requestId |-> requestId, sessionId |-> sessionId,
   hasPayload |-> hasPayload, documentId |-> documentId, path |-> path]

UserMessage(r)       == ClientFrame("user_message", r, NoSession, TRUE, NoDoc, NoPath)
DocumentFocus(d, pa) == ClientFrame("document_focus", NoRequest, NoSession, TRUE, d, pa)
Pong                 == ClientFrame("pong", NoRequest, NoSession, TRUE, NoDoc, NoPath)
Reconnect(sid)       == ClientFrame("reconnect", NoRequest, sid, TRUE, NoDoc, NoPath)
OtherType(r)         == ClientFrame("ping", r, NoSession, TRUE, NoDoc, NoPath)
NoPayload(r)         == ClientFrame("user_message", r, NoSession, FALSE, NoDoc, NoPath)

(* variant: the connection is closed and dropped after the error reply *)
messageFailedAndDrop(st, c, name) ==
  clientsDelete(wsTerminate(
    sendToClient(st, c, ErrorFrame(NoRequest,
                                   [message |-> "Failed to process your message",
                                    code |-> normalizedCode([name |-> name])])), c), c)

(* the onError callback of the message handler's tryCatch *)
messageFailed(st, c, name) ==
  sendToClient(st, c, ErrorFrame(NoRequest,
                                 [message |-> "Failed to process your message",
                                  code |-> normalizedCode([name |-> name])]))

(* variant: the reply to an unsupported type carries no request id *)
handleClientMessageNoEcho(st, c, m) ==
  IF m.type \in {"user_message", "document_focus"} /\ ~m.hasPayload
  THEN messageFailed(st, c, "TypeError")
  ELSE IF m.type = "user_message" THEN handleUserMessage(st, c, m.requestId)
  ELSE IF m.type = "document_focus" THEN handleDocumentFocus(st, m.documentId, m.path)
  ELSE sendToClient(st, c, ErrorFrame(NoRequest,
                                      [message |-> "Unsupported message type",
                                       type |-> m.type]))

(* the switch of handleClientMessage; the default branch's message
   `Unsupported message type: ${message.type}` is kept as text and type *)
handleClientMessage(st, c, m) ==
  IF m.type \in {"user_message", "document_focus"} /\ ~m.hasPayload
  THEN messageFailed(st, c, "TypeError")
  ELSE IF m.type = "user_message" THEN handleUserMessage(st, c, m.requestId)
  ELSE IF m.type = "document_focus" THEN handleDocumentFocus(st, m.documentId, m.path)
  ELSE sendToClient(st, c, ErrorFrame(m.requestId,
                                      [message |-> "Unsupported message type",
                                       type |-> m.type]))

(* variant: a reconnect frame is handed to handleReconnection whether or not
   it names a session *)
messageHandlerReconnectAlways(st, c, m) ==
  IF ~m.valid THEN messageFailed(st, c, "SyntaxError")
  ELSE IF c \notin st.clients THEN st
  ELSE LET st1 == [st EXCEPT !.cobj[c].lastActive = now]
       IN  IF m.type = "reconnect"
           THEN handleReconnection(st1, c, m.sessionId)
           ELSE IF m.type = "pong" THEN [st1 EXCEPT !.cobj[c].isAlive = TRUE]
           ELSE handleClientMessage(st1, c, m)

(* variant: frames of a connection wait for its generate call to return *)
messageHandlerWaits(st, c, m) ==
  IF \E i \in 1..Len(st.pending) : st.pending[i].c = c THEN st
  ELSE IF ~m.valid THEN messageFailed(st, c, "SyntaxError")
  ELSE IF c \notin st.clients THEN st
  ELSE LET st1 == [st EXCEPT !.cobj[c].lastActive = now]
       IN  IF m.type = "reconnect" /\ m.sessionId # NoSession
           THEN handleReconnection(st1, c, m.sessionId)
           ELSE IF m.type = "pong" THEN [st1 EXCEPT !.cobj[c].isAlive = TRUE]
           ELSE handleClientMessage(st1, c, m)

(* variant: a pong only refreshes lastActive *)
messageHandlerPongIgnored(st, c, m) ==
  IF ~m.valid THEN messageFailed(st, c, "SyntaxError")
  ELSE IF c \notin st.clients THEN st
  ELSE LET st1 == [st EXCEPT !.cobj[c].lastActive = now]
       IN  IF m.type = "reconnect" /\ m.sessionId # NoSession
           THEN handleReconnection(st1, c, m.sessionId)
           ELSE IF m.type = "pong" THEN st1
           ELSE handleClientMessage(st1, c, m)

messageHandler(st, c, m) ==
  IF ~m.valid THEN messageFailed(st, c, "SyntaxError")
  ELSE IF c \notin st.clients THEN st
  ELSE LET st1 == [st EXCEPT !.cobj[c].lastActive = now]
       IN  IF m.type = "reconnect" /\ m.sessionId # NoSession
           THEN handleReconnection(st1, c, m.sessionId)
           ELSE IF m.type = "pong" THEN [st1 EXCEPT !.cobj[c].isAlive = TRUE]
           ELSE handleClientMessage(st1, c, m)

(* ws.on("message"): a frame arrives as long as the socket has not closed *)
Message(c, m) ==
  /\ c \in DOMAIN ws /\ ws[c] \in {"OPEN", "CLOSING"}
  /\ (m.valid /\ m.type = "user_message" /\ m.hasPayload /\ c \in clients)
       => Len(pending) < MaxPending /\ agent.messages + 2 <= MaxMessages
  /\ (m.valid /\ m.type = "document_focus" /\ m.hasPayload /\ c \in clients)
       => Len(timers) < MaxTimers
  /\ Commit(messageHandler(On([ev |-> "message", c |-> c, m |-> m]), c, m))
  /\ UNCHANGED <<impl, now, nextId>>

----------------------------------------------------------------------------
(* The servers under every interleaving of their events *)

Texts == {"", "hello back", GenerateErrorText}
RequestIds == {NoRequest, 1}
Errors == {ErrReset, ErrProtocol}

(* the session ids a reconnect frame can name: one in the store, one the
   server never minted, none *)
ReconnectFrames ==
  {Reconnect(sid) : sid \in DOMAIN sessions \cup {UnknownSession, NoSession}}

(* Connection life cycle: two connections, every frame type but
   document_focus, socket errors, the heartbeat and the sweep *)
Frames ==
  {InvalidJson, Pong, OtherType(1), NoPayload(1)}
    \cup {UserMessage(r) : r \in RequestIds}
    \cup ReconnectFrames

Next ==
  \/ Advance(1, MaxNow)
  \/ Connect(MaxClients, MaxOpen)
  \/ \E c \in DOMAIN ws : SocketClosing(c)
  \/ \E c \in DOMAIN ws : CloseEvent(c)
  \/ \E c \in DOMAIN ws, err \in Errors : SocketError(c, err)
  \/ HeartbeatLG
  \/ HeartbeatMCP
  \/ SessionCleanupTimer
  \/ \E c \in DOMAIN ws, m \in Frames : Message(c, m)
  \/ \E i \in 1..Len(pending), t \in Texts : GenerateResolve(i, t)
  \/ \E i \in 1..Len(pending) : GenerateReject(i)

Spec == Init /\ [][Next]_vars

(* Selection: one connection that focuses documents 1, 2, 3, ... in turn,
   focuses documents 1..SelRefocus again (with a path) at any time, sends user
   messages and reconnects to the sessions in the store; it sends its next
   frame when the server has finished with the previous one *)
LiveIds ==
  LET a == arrays[agentState.currentSelection] IN {a[i].id : i \in 1..Len(a)}

NextDoc ==
  IF LiveIds = {} THEN 1
  ELSE 1 + CHOOSE d \in LiveIds : \A e \in LiveIds : e <= d

FramesSel ==
  IF pending # <<>> \/ timers # <<>> THEN {}
  ELSE {DocumentFocus(d, NoPath) : d \in {NoDoc, NextDoc} \cap 0..SelMaxDocId}
         \cup {DocumentFocus(d, "title") : d \in 1..SelRefocus}
         \cup {UserMessage(1)}
         \cup {Reconnect(sid) : sid \in DOMAIN sessions}

NextSel ==
  \/ Advance(1, MaxNow)
  \/ Connect(1, 1)
  \/ \E m \in FramesSel : Message(1, m)
  \/ \E i \in 1..Len(pending) : GenerateResolve(i, "hello back")
  \/ TimerFire

SpecSel == Init /\ [][NextSel]_vars

(* Expiry: the clock steps by 1 ms and by the expiry period, connections
   mint sessions, reconnect and close, and the sweeps run *)
ExpMaxNow == SESSION_EXPIRY + ExpSlack

FramesExp == {Pong, UserMessage(1)} \cup ReconnectFrames

NextExp ==
  \/ Advance(1, MaxNow)
  \/ Advance(SESSION_EXPIRY, ExpMaxNow)
  \/ Connect(MaxClients, MaxOpen)
  \/ \E c \in DOMAIN ws : SocketClosing(c)
  \/ \E c \in DOMAIN ws : CloseEvent(c)
  \/ HeartbeatLG
  \/ HeartbeatMCP
  \/ SessionCleanupTimer
  \/ \E c \in DOMAIN ws, m \in FramesExp : Message(c, m)
  \/ \E i \in 1..Len(pending) : GenerateResolve(i, "hello back")

SpecExp == Init /\ [][NextExp]_vars

(* Routing and broadcast: connections that are open at the same time send
   unparseable text, frames of types the router does not dispatch, user
   messages and document_focus frames, and close *)
Unrouted == ClientFrame("agent_message", NoRequest, NoSession, TRUE, NoDoc, NoPath)

FramesPair ==
  {InvalidJson, OtherType(1), Unrouted, UserMessage(1)}
    \cup {DocumentFocus(d, NoPath) : d \in 0..PairDocs}

NextPair ==
  \/ Connect(MaxClients, MaxClients)
  \/ \E c \in DOMAIN ws : SocketClosing(c)
  \/ \E c \in DOMAIN ws : CloseEvent(c)
  \/ \E c \in DOMAIN ws, m \in FramesPair : Message(c, m)
  \/ \E i \in 1..Len(pending) : GenerateResolve(i, "hello back")
  \/ TimerFire

SpecPair == Init /\ [][NextPair]_vars

(* a timer that setTimeout armed fires: the event loop runs its callback *)
SpecPairLive == SpecPair /\ WF_vars(TimerFire)

(* Heartbeat: connections that are open at the same time answer the pings
   with pongs, or do not, send other frames, and close *)
FramesBeat == {Pong, Unrouted}

NextBeat ==
  \/ Connect(MaxClients, MaxClients)
  \/ \E c \in DOMAIN ws : SocketClosing(c)
  \/ \E c \in DOMAIN ws : CloseEvent(c)
  \/ \E c \in DOMAIN ws, m \in FramesBeat : Message(c, m)
  \/ HeartbeatLG
  \/ HeartbeatMCP

SpecBeat == Init /\ [][NextBeat]_vars

(* Start-up: startWebSocketServer is called for a port at or above WS_PORT,
   or for one out of range, while other processes hold some of the ports *)
StartPorts == WS_PORT..(WS_PORT + PortSpan)

InitStart ==
  /\ impl \in {"LG", "MCP"}
  /\ now = 0
  /\ nextId = 1
  /\ clients = {}
  /\ cobj = <<>>
  /\ ws = <<>>
  /\ sessions = <<>>
  /\ agentState = InitialAgentState
  /\ arrays = (1 :> <<>>)
  /\ pending = <<>>
  /\ timers = <<>>
  /\ startup \in {NotStarted(port, maxRetries, busy) :
                    port \in StartPorts \cup {PortLimit + 1},
                    maxRetries \in 0..MaxRetries,
                    busy \in SUBSET StartPorts}
  /\ agent = InitialAdapterState
  /\ inbox = <<>>
  /\ out = <<>>

NextStart ==
  \/ StartWebSocketServer
  \/ ServerListening
  \/ ServerError

SpecStart == InitStart /\ [][NextStart]_vars

(* In-flight calls: connections that are open at the same time send user
   messages and, while generate is pending, pongs and other frames; the
   heartbeat ticks *)
FramesBusy == {Pong, Unrouted, UserMessage(1)}

NextBusy ==
  \/ Connect(MaxClients, MaxClients)
  \/ \E c \in DOMAIN ws : SocketClosing(c)
  \/ \E c \in DOMAIN ws : CloseEvent(c)
  \/ \E c \in DOMAIN ws, m \in FramesBusy : Message(c, m)
  \/ \E i \in 1..Len(pending) : GenerateResolve(i, "hello back")
  \/ HeartbeatLG
  \/ HeartbeatMCP

SpecBusy == Init /\ [][NextBusy]_vars

(* Frame order: frames queue up behind each other on a socket before the
   event loop emits their "message" events; two connections, two user
   messages in flight, pongs and unparseable text between them *)
FramesOrder == {Pong, InvalidJson, UserMessage(1), UserMessage(2)}

(* user messages that were read off open sockets and are not yet dispatched *)
Undispatched ==
  {p \in {<<c, i>> : c \in DOMAIN inbox, i \in 1..MaxInbox} :
     /\ ws[p[1]] # "DONE"
     /\ p[2] <= Len(inbox[p[1]])
     /\ inbox[p[1]][p[2]] \in {UserMessage(1), UserMessage(2)}}

(* the socket reads a frame off its stream *)
Arrive(c, m) ==
  /\ c \in DOMAIN ws /\ ws[c] \in {"OPEN", "CLOSING"}
  /\ Len(inbox[c]) < MaxInbox
  /\ m \in {UserMessage(1), UserMessage(2)} =>
       /\ Cardinality(Undispatched) + Len(pending) < MaxInFlight
       /\ agent.messages + 2 * (Cardinality(Undispatched) + 1) + Len(pending)
            <= MaxMessages
  /\ inbox' = [inbox EXCEPT ![c] = Append(@, m)]
  /\ out' = <<>>
  /\ UNCHANGED <<impl, now, nextId, clients, cobj, ws, sessions, agentState,
                 arrays, pending, timers, startup, agent>>

(* variant: the newest frame of the socket is emitted first *)
receiveNewestFirst(q) == [m |-> q[Len(q)], rest |-> SubSeq(q, 1, Len(q) - 1)]

(* the socket emits "message" for the frames of its stream one by one, in
   the order of the stream *)
receive(q) == [m |-> Head(q), rest |-> Tail(q)]

(* ws.on("message") for the next frame of socket c: the listener that
   tryCatch returns calls the handler at once, and the handler runs in the
   same turn of the event loop up to its first await *)
Deliver(c) ==
  /\ c \in DOMAIN ws /\ ws[c] \in {"OPEN", "CLOSING"}
  /\ inbox[c] # <<>>
  /\ LET r == receive(inbox[c])
     IN  Commit(messageHandler(
                  [On([ev |-> "message", c |-> c, m |-> r.m]) EXCEPT
                     !.inbox[c] = r.rest], c, r.m))
  /\ UNCHANGED <<impl, now, nextId>>

NextOrder ==
  \/ Connect(MaxClients, MaxClients)
  \/ \E c \in DOMAIN ws : SocketClosing(c)
  \/ \E c \in DOMAIN ws : CloseEvent(c)
  \/ \E c \in DOMAIN ws, m \in FramesOrder : Arrive(c, m)
  \/ \E c \in DOMAIN ws : Deliver(c)
  \/ \E i \in 1..Len(pending) : GenerateResolve(i, "hello back")

SpecOrder == Init /\ [][NextOrder]_vars

(* Sessions: connections that are open at the same time mint sessions,
   reconnect to the sessions of the store and to unknown ones, focus a
   document and answer pings, while the clock runs *)
FramesSess ==
  {Pong, UserMessage(1), DocumentFocus(1, NoPath)} \cup ReconnectFrames

NextSess ==
  \/ Advance(1, MaxNow)
  \/ Connect(MaxClients, MaxClients)
  \/ \E c \in DOMAIN ws, m \in FramesSess : Message(c, m)
  \/ \E i \in 1..Len(pending) : GenerateResolve(i, "hello back")
  \/ TimerFire

SpecSess == Init /\ [][NextSess]_vars

(* Socket errors: connections that are open at the same time raise errors of
   every kind, mint sessions and close *)
SocketErrors ==
  {ErrReset, ErrRefused, ErrTimedOut, ErrRefusedText, ErrTimeoutText, ErrProtocol}

NextErr ==
  \/ Connect(MaxClients, MaxClients)
  \/ \E c \in DOMAIN ws : SocketClosing(c)
  \/ \E c \in DOMAIN ws : CloseEvent(c)
  \/ \E c \in DOMAIN ws, err \in SocketErrors : SocketError(c, err)
  \/ \E c \in DOMAIN ws : Message(c, UserMessage(1))
  \/ \E i \in 1..Len(pending) : GenerateResolve(i, "hello back")

SpecErr == Init /\ [][NextErr]_vars

----------------------------------------------------------------------------
(* Properties.  A step is read off the trace it leaves: out'[1] is the event
   whose callback ran, the rest are the callback's effects in program order. *)

Trigger(o) == IF o = <<>> THEN [ev |-> "none"] ELSE o[1]

IsMessage(e, c, type) ==
  e.ev = "message" /\ e.c = c /\ e.m.valid /\ e.m.type = type

Selection == arrays[agentState.currentSelection]

HasId(a, d) == \E i \in 1..Len(a) : a[i].id = d

NoDuplicateIds ==
  \A i, j \in 1..Len(Selection) : Selection[i].id = Selection[j].id => i = j

(* C1: at a heartbeat tick every registered connection that is alive is
   marked not-alive, stays registered and, if its socket is open, is sent a
   ping; every registered connection found not-alive (it sent no pong since
   the previous tick) is terminated and is no longer registered after the
   tick. *)
HeartbeatTermination ==
  [][Trigger(out').ev = "heartbeat" =>
       \A c \in clients :
         IF cobj[c].isAlive
         THEN /\ c \in clients'
              /\ ~cobj'[c].isAlive
              /\ ws[c] = "OPEN" =>
                   \E i \in 1..Len(out') :
                     /\ out'[i].ev = "send" /\ out'[i].to = c
                     /\ out'[i].msg.type = "ping"
         ELSE /\ \E i \in 1..Len(out') : out'[i] = [ev |-> "terminate", c |-> c]
              /\ c \notin clients']_vars

(* C2: a reconnect frame that names a session in the store (not expired),
   received on a registered open connection, binds the connection to that
   session id and is answered on that connection with a frame whose payload
   carries sessionRestored = TRUE. *)
ReconnectRestoresSession ==
  [][\A c \in clients, sid \in DOMAIN sessions :
       ( /\ Trigger(out') = [ev |-> "message", c |-> c, m |-> Reconnect(sid)]
         /\ ws[c] = "OPEN"
         /\ now - sessions[sid].lastActive <= SESSION_EXPIRY )
       => /\ cobj'[c].sessionId = sid
          /\ \E i \in 1..Len(out') :
               /\ out'[i].ev = "send" /\ out'[i].to = c
               /\ "sessionRestored" \in DOMAIN out'[i].msg.payload
               /\ out'[i].msg.payload.sessionRestored = TRUE]_vars

(* C3: a reconnect frame that names a session absent from the store, received
   on a registered open connection, gives the connection a session id under
   which the store then holds an entry written by this step, is answered with
   an agent_message carrying sessionRestored = FALSE and that id as
   newSessionId, and no error frame is sent to the connection. *)
ReconnectUnknownMintsSession ==
  [][\A c \in clients :
       ( /\ Trigger(out') = [ev |-> "message", c |-> c, m |-> Reconnect(UnknownSession)]
         /\ UnknownSession \notin DOMAIN sessions
         /\ ws[c] = "OPEN" )
       => LET new == cobj'[c].sessionId
          IN  /\ new # NoSession
              /\ new \in DOMAIN sessions'
              /\ \E i \in 1..Len(out') :
                   out'[i] = [ev |-> "preserve", sid |-> new, c |-> c]
              /\ \E i \in 1..Len(out') :
                   /\ out'[i].ev = "send" /\ out'[i].to = c
                   /\ out'[i].msg.type = "agent_message"
                   /\ "sessionRestored" \in DOMAIN out'[i].msg.payload
                   /\ out'[i].msg.payload.sessionRestored = FALSE
                   /\ out'[i].msg.payload.newSessionId = new
              /\ \A i \in 1..Len(out') :
                   (out'[i].ev = "send" /\ out'[i].to = c)
                     => out'[i].msg.type # "error"]_vars

(* C4: in every reachable state the Selection holds at most MAX_DOCUMENTS
   (10) entries. *)
SelectionBounded == Len(Selection) <= MAX_DOCUMENTS

(* C5: a document_focus frame for an id that is in the Selection, handled on
   a registered connection, leaves that entry at index 0 with the frame's
   path and the current time as lastModified, leaves the length unchanged
   with no other entry of that id, and leaves every other entry unchanged and
   in the same relative order; and no reachable Selection holds two entries
   with the same id. *)
RefocusMovesToFront ==
  /\ []NoDuplicateIds
  /\ [][\A c \in clients :
          ( /\ IsMessage(Trigger(out'), c, "document_focus")
            /\ Trigger(out').m.hasPayload
            /\ HasId(Selection, Trigger(out').m.documentId) )
          => LET a == Selection
                 b == Selection'
                 d == Trigger(out').m.documentId
                 k == CHOOSE i \in 1..Len(a) : a[i].id = d
             IN  /\ Len(b) = Len(a)
                 /\ b[1] = [a[k] EXCEPT !.path = Trigger(out').m.path,
                                        !.lastModified = now]
                 /\ \A i \in 2..Len(b) : b[i].id # d
                 /\ \A i \in 1..(k - 1) : b[i + 1] = a[i]
                 /\ \A i \in (k + 1)..Len(a) : b[i] = a[i]]_vars

(* a refocus of an entry that was not at the front, that changed its path and
   its lastModified *)
RefocusMovesToFrontWitness ==
  /\ \E c \in clients : IsMessage(Trigger(out), c, "document_focus")
  /\ Len(Selection) = MAX_DOCUMENTS
  /\ Selection[1].id = 1
  /\ Selection[1].gen = 1
  /\ Selection[1].path = "title"
  /\ Selection[1].lastModified = 1
  /\ Selection[2].lastModified = 0

(* C6: a document_focus frame for an id that is not in the Selection, handled
   on a registered connection while the Selection holds MAX_DOCUMENTS (10)
   entries, leaves a Selection of 10 entries with the new id at index 0,
   followed by the first nine of the previous entries in their order: the
   entry evicted is the one that was last. *)
InsertEvictsLast ==
  [][\A c \in clients :
       ( /\ IsMessage(Trigger(out'), c, "document_focus")
         /\ Trigger(out').m.hasPayload
         /\ Trigger(out').m.documentId # NoDoc
         /\ ~HasId(Selection, Trigger(out').m.documentId)
         /\ Len(Selection) = MAX_DOCUMENTS )
       => /\ Len(Selection') = MAX_DOCUMENTS
          /\ Selection'[1].id = Trigger(out').m.documentId
          /\ \A i \in 1..(MAX_DOCUMENTS - 1) : Selection'[i + 1] = Selection[i]]_vars

(* the eleventh document has just been inserted into a full Selection *)
InsertEvictsLastWitness ==
  /\ \E c \in clients : IsMessage(Trigger(out), c, "document_focus")
  /\ Trigger(out).m.documentId = MAX_DOCUMENTS + 1
  /\ Len(Selection) = MAX_DOCUMENTS
  /\ Selection[1].id = MAX_DOCUMENTS + 1
  /\ Selection[MAX_DOCUMENTS].id = 2

(* C7: a session leaves the store only in a step that runs a sweep and only
   if, at that step, now - lastActive exceeds SESSION_EXPIRY; and after a
   step that runs a sweep the store holds no session whose now - lastActive
   exceeds SESSION_EXPIRY: the sweep deletes the expired sessions and no
   others. *)
Swept(o) == \E i \in 1..Len(o) : o[i].ev = "cleanup"

SweepDeletesExactlyExpired ==
  [][/\ \A s \in DOMAIN sessions \ DOMAIN sessions' :
          Swept(out') /\ now - sessions[s].lastActive > SESSION_EXPIRY
     /\ Swept(out') =>
          \A s \in DOMAIN sessions' :
            now - sessions'[s].lastActive <= SESSION_EXPIRY]_vars

(* a sweep has just deleted a session and kept one that is exactly
   SESSION_EXPIRY old *)
SweepDeletesExactlyExpiredWitness ==
  /\ \E i \in 1..Len(out) : out[i].ev = "cleanup" /\ out[i].expiredCount > 0
  /\ \E s \in DOMAIN sessions : now - sessions[s].lastActive = SESSION_EXPIRY

(* C8: when the close handler runs for a connection that is no longer
   registered (the heartbeat or the recovery cap removed it before), the
   session store is left as it is and nothing is preserved or deleted; and a
   heartbeat tick preserves, deletes and terminates nothing for a connection
   that is no longer registered (the close handler removed it before). *)
SecondRemovalWritesNothing ==
  [][\A c \in DOMAIN ws \ clients :
       /\ Trigger(out') = [ev |-> "close", c |-> c]
            => sessions' = sessions /\ Len(out') = 1
       /\ Trigger(out').ev = "heartbeat"
            => \A i \in 2..Len(out') :
                 out'[i].ev \in {"preserve", "delete", "terminate"} => out'[i].c # c]_vars

(* the close handler has run for a connection that had minted a session and
   had been removed before its socket closed *)
SecondRemovalWritesNothingWitness ==
  \E c \in DOMAIN ws \ clients :
    /\ out = <<[ev |-> "close", c |-> c]>>
    /\ \E s \in DOMAIN sessions : sessions[s].lastClientId = c

(* C9: whenever a connection that has a session id leaves the registry, the
   step that deletes it has written a snapshot for that session id to the
   store before the deletion. *)
RemovalPreservesFirst ==
  [][\A c \in clients \ clients' :
       cobj[c].sessionId # NoSession =>
         \E i, j \in 1..Len(out') :
           /\ i < j
           /\ out'[i].ev = "preserve" /\ out'[i].sid = cobj[c].sessionId
           /\ out'[j] = [ev |-> "delete", c |-> c]]_vars

(* C10: a user_message frame handled on a registered open connection sends
   that connection a thinking_state frame before generate is invoked; and
   when generate resolves with text t while the connection is registered and
   open, the connection is sent an agent_message frame whose payload.message
   is t and whose requestId is that of the user_message. *)
UserMessageReplies ==
  [][\A c \in clients :
       /\ ( /\ IsMessage(Trigger(out'), c, "user_message")
            /\ Trigger(out').m.hasPayload
            /\ ws[c] = "OPEN" )
          => \E i, j \in 1..Len(out') :
               /\ i < j
               /\ out'[i].ev = "send" /\ out'[i].to = c
               /\ out'[i].msg.type = "thinking_state"
               /\ out'[j] = [ev |-> "generate", c |-> c]
       /\ ( /\ Trigger(out').ev = "resolved" /\ Trigger(out').c = c
            /\ ws[c] = "OPEN" )
          => \E i \in 1..Len(out') :
               /\ out'[i].ev = "send" /\ out'[i].to = c
               /\ out'[i].msg.type = "agent_message"
               /\ out'[i].msg.requestId = Trigger(out').requestId
               /\ out'[i].msg.payload.message = Trigger(out').text]_vars

(* C11: when generate rejects for a user_message of a connection that is
   registered and open, that connection is sent an error frame carrying the
   request id of the user_message, the connection stays registered and open
   with its Client record as it was, and the session store is unchanged, so
   its session is still there and later frames are handled as before. *)
GenerateRejectionIsNonFatal ==
  [][\A c \in clients :
       ( /\ Trigger(out').ev = "rejected" /\ Trigger(out').c = c
         /\ ws[c] = "OPEN" )
       => /\ \E i \in 1..Len(out') :
               /\ out'[i].ev = "send" /\ out'[i].to = c
               /\ out'[i].msg.type = "error"
               /\ out'[i].msg.requestId = Trigger(out').requestId
          /\ c \in clients' /\ ws'[c] = "OPEN" /\ cobj'[c] = cobj[c]
          /\ sessions' = sessions]_vars

(* generate has just rejected for a request with a request id, on an open
   connection whose session is in the store *)
GenerateRejectionIsNonFatalWitness ==
  \E c \in clients :
    /\ Trigger(out).ev = "rejected" /\ Trigger(out).c = c
    /\ Trigger(out).requestId # NoRequest
    /\ Len(out) = 2
    /\ ws[c] = "OPEN"
    /\ cobj[c].sessionId \in DOMAIN sessions

(* C12: a frame that is not valid JSON, received on a registered open
   connection, sends exactly one frame, an error frame to the sender; the
   registry, every socket, every Client record, the session store, the
   Selection and the UserFocus are as they were. *)
InvalidJsonIsNonFatal ==
  [][\A c \in clients :
       ( /\ Trigger(out') = [ev |-> "message", c |-> c, m |-> InvalidJson]
         /\ ws[c] = "OPEN" )
       => /\ Len(out') = 2
          /\ out'[2].ev = "send" /\ out'[2].to = c /\ out'[2].msg.type = "error"
          /\ clients' = clients /\ ws' = ws /\ cobj' = cobj
          /\ sessions' = sessions
          /\ Selection' = Selection
          /\ agentState'.userFocus = agentState.userFocus]_vars

(* unparseable text has just arrived on one of two open connections while
   the store, the Selection and the UserFocus were not empty *)
InvalidJsonIsNonFatalWitness ==
  /\ \E c \in clients : Trigger(out) = [ev |-> "message", c |-> c, m |-> InvalidJson]
  /\ Cardinality({c \in clients : ws[c] = "OPEN"}) = 2
  /\ sessions # <<>>
  /\ Selection # <<>>
  /\ agentState.userFocus.documentId # NoDoc

(* C13: a valid frame whose type the router does not dispatch, received on a
   registered open connection, sends exactly one frame, an error frame to
   the sender that names the frame's type and carries the frame's requestId;
   the registry, the sockets, the session store, the Selection and the
   UserFocus are as they were (of the Client record only lastActive is
   written). *)
UnroutedTypeIsNonFatal ==
  [][\A c \in clients :
       ( /\ Trigger(out').ev = "message" /\ Trigger(out').c = c
         /\ Trigger(out').m.valid
         /\ Trigger(out').m.type \notin
              {"user_message", "document_focus", "pong", "reconnect"}
         /\ ws[c] = "OPEN" )
       => /\ Len(out') = 2
          /\ out'[2].ev = "send" /\ out'[2].to = c /\ out'[2].msg.type = "error"
          /\ out'[2].msg.payload.type = Trigger(out').m.type
          /\ out'[2].msg.requestId = Trigger(out').m.requestId
          /\ clients' = clients /\ ws' = ws
          /\ cobj' = [cobj EXCEPT ![c].lastActive = now]
          /\ sessions' = sessions
          /\ Selection' = Selection
          /\ agentState'.userFocus = agentState.userFocus]_vars

(* a frame of an undispatched type with a request id has just arrived on one
   of two open connections while the store and the Selection were not empty *)
UnroutedTypeIsNonFatalWitness ==
  /\ \E c \in clients : Trigger(out) = [ev |-> "message", c |-> c, m |-> OtherType(1)]
  /\ Cardinality({c \in clients : ws[c] = "OPEN"}) = 2
  /\ sessions # <<>>
  /\ Selection # <<>>

(* C14: a document_focus frame for a document id, handled on a registered
   connection, sends to every open connection first a thinking_state with
   action analyzing_document for that id and then a document_set_update whose
   documents contain the id; that step sends no thinking_state with action
   completed and leaves the timer for it pending; and the step in which the
   timer fires sends the thinking_state with action completed for the id to
   every connection open then. *)
FocusBroadcastOrder ==
  [][/\ \A c \in clients :
          ( /\ IsMessage(Trigger(out'), c, "document_focus")
            /\ Trigger(out').m.hasPayload
            /\ Trigger(out').m.documentId # NoDoc )
          => LET d == Trigger(out').m.documentId
             IN  /\ \A k \in DOMAIN ws :
                      ws[k] = "OPEN" =>
                        \E i, j \in 1..Len(out') :
                          /\ i < j
                          /\ out'[i] = [ev |-> "send", to |-> k,
                                        msg |-> ThinkingState(d, "analyzing_document")]
                          /\ out'[j].ev = "send" /\ out'[j].to = k
                          /\ out'[j].msg.type = "document_set_update"
                          /\ \E n \in 1..Len(out'[j].msg.payload.documents) :
                               out'[j].msg.payload.documents[n] = d
                 /\ \A i \in 2..Len(out') :
                      (out'[i].ev = "send" /\ out'[i].msg.type = "thinking_state")
                        => out'[i].msg.payload.action # "completed"
                 /\ timers' = Append(timers, d)
     /\ Trigger(out').ev = "timeout" =>
          \A k \in DOMAIN ws :
            ws[k] = "OPEN" =>
              \E i \in 1..Len(out') :
                out'[i] = [ev |-> "send", to |-> k,
                          msg |-> ThinkingState(Head(timers), "completed")]]_vars

(* a document_focus frame has just been handled while two connections were
   open: each was sent the two frames *)
FocusBroadcastOrderWitness ==
  /\ \E c \in clients :
       /\ IsMessage(Trigger(out), c, "document_focus")
       /\ Trigger(out).m.documentId # NoDoc
  /\ Cardinality({c \in clients : ws[c] = "OPEN"}) = 2
  /\ Len(out) = 5
  /\ timers # <<>>

(* C15: a reconnect frame that names a session absent from the store,
   received on a registered open connection, is answered on that connection
   first with an agent_message carrying sessionRestored = FALSE and the
   connection's fresh session id as newSessionId, and after it with a
   document_set_update whose documents list is empty. *)
ReconnectUnknownReplyOrder ==
  [][\A c \in clients :
       ( /\ Trigger(out') = [ev |-> "message", c |-> c, m |-> Reconnect(UnknownSession)]
         /\ UnknownSession \notin DOMAIN sessions
         /\ ws[c] = "OPEN" )
       => \E i, j \in 1..Len(out') :
            /\ i < j
            /\ out'[i].ev = "send" /\ out'[i].to = c
            /\ out'[i].msg.type = "agent_message"
            /\ "sessionRestored" \in DOMAIN out'[i].msg.payload
            /\ out'[i].msg.payload.sessionRestored = FALSE
            /\ out'[i].msg.payload.newSessionId = cobj'[c].sessionId
            /\ out'[j].ev = "send" /\ out'[j].to = c
            /\ out'[j].msg.type = "document_set_update"
            /\ out'[j].msg.payload.documents = <<>>]_vars

(* C16: a reconnect frame that names a session of the store whose lastActive
   is older than SESSION_EXPIRY, received on a registered open connection, is
   treated as not found whether or not a sweep has run: the connection is not
   bound to that session, no state is restored from it, and the connection
   is sent a reply with sessionRestored = FALSE and a newSessionId. *)
ExpiredReconnectNotFound ==
  [][\A c \in clients, sid \in DOMAIN sessions :
       ( /\ Trigger(out') = [ev |-> "message", c |-> c, m |-> Reconnect(sid)]
         /\ ws[c] = "OPEN"
         /\ now - sessions[sid].lastActive > SESSION_EXPIRY )
       => /\ cobj'[c].sessionId # sid
          /\ \A i \in 1..Len(out') : out'[i].ev # "setState"
          /\ \E i \in 1..Len(out') :
               /\ out'[i].ev = "send" /\ out'[i].to = c
               /\ "sessionRestored" \in DOMAIN out'[i].msg.payload
               /\ out'[i].msg.payload.sessionRestored = FALSE
               /\ "newSessionId" \in DOMAIN out'[i].msg.payload]_vars

(* C17: a pong received on a registered connection sets its isAlive; the
   isAlive of a connection that stays registered is cleared by the heartbeat
   tick and by nothing else; and a tick terminates or removes no connection
   whose isAlive is set at the tick.  So a connection that sends a pong
   between every two consecutive ticks is alive at every tick and the
   heartbeat never terminates it. *)
PongKeepsAlive ==
  [][\A c \in clients :
       /\ IsMessage(Trigger(out'), c, "pong")
            => c \in clients' /\ cobj'[c].isAlive
       /\ (c \in clients' /\ cobj[c].isAlive /\ ~cobj'[c].isAlive)
            => Trigger(out').ev = "heartbeat"
       /\ (Trigger(out').ev = "heartbeat" /\ cobj[c].isAlive)
            => /\ c \in clients'
               /\ ws'[c] = ws[c]
               /\ \A i \in 1..Len(out') :
                    out'[i].ev \in {"terminate", "delete"} => out'[i].c # c]_vars

(* a tick has just terminated the second connection, which an earlier tick
   had marked not-alive, and pinged the first, still open: the first was
   marked at that earlier tick too and has sent a pong since *)
PongKeepsAliveWitness ==
  /\ Trigger(out).ev = "heartbeat"
  /\ \E i \in 1..Len(out) : out[i] = [ev |-> "terminate", c |-> 2]
  /\ \E i \in 1..Len(out) : out[i].ev = "send" /\ out[i].to = 1 /\ out[i].msg.type = "ping"
  /\ 1 \in clients /\ ws[1] = "OPEN"

(* C18: a session whose lastActive lies within SESSION_EXPIRY of the current
   time is in the store after every step that runs a sweep, whatever its
   createdAt, in particular when its createdAt is older than SESSION_EXPIRY
   and a reconnect has refreshed its lastActive. *)
ExpiryIgnoresCreatedAt ==
  [][\A s \in DOMAIN sessions :
       (Swept(out') /\ now - sessions[s].lastActive <= SESSION_EXPIRY)
         => s \in DOMAIN sessions']_vars

(* a sweep has just run and kept a session created longer ago than
   SESSION_EXPIRY whose lastActive a reconnect had refreshed *)
ExpiryIgnoresCreatedAtWitness ==
  /\ Swept(out)
  /\ \E s \in DOMAIN sessions :
       /\ now - sessions[s].createdAt > SESSION_EXPIRY
       /\ now - sessions[s].lastActive <= SESSION_EXPIRY
       /\ sessions[s].createdAt < sessions[s].lastActive

(* a frame that asks connection c to reconnect *)
IsReconnectRequest(e, c) ==
  /\ e.ev = "send" /\ e.to = c /\ e.msg.type = "error"
  /\ "reconnect" \in DOMAIN e.msg.payload
  /\ e.msg.payload.reconnect = TRUE

(* C19: the reconnectAttempts of a connection that stays registered never
   decreases and changes only in the step of a recoverable socket error on
   that connection, which adds one; a recoverable error on a connection whose
   counter is below MAX_RECONNECT_ATTEMPTS (3) leaves it registered, so a
   reconnect request is sent at most 3 times; and the recoverable error that
   finds the counter at 3 removes the connection from the registry and sends
   it nothing. *)
RecoveryAttemptsCapped ==
  [][\A c \in clients :
       LET n == cobj[c].reconnectAttempts
           recoverable == /\ Trigger(out').ev = "error" /\ Trigger(out').c = c
                          /\ isRecoverableConnectionError(Trigger(out').err)
       IN  /\ n <= MAX_RECONNECT_ATTEMPTS
           /\ (c \in clients' /\ ~recoverable) => cobj'[c].reconnectAttempts = n
           /\ (recoverable /\ n < MAX_RECONNECT_ATTEMPTS)
                => c \in clients' /\ cobj'[c].reconnectAttempts = n + 1
           /\ (recoverable /\ n = MAX_RECONNECT_ATTEMPTS)
                => /\ c \notin clients'
                   /\ \A i \in 1..Len(out') :
                        out'[i].ev = "send" => out'[i].to # c
           /\ (\E i \in 1..Len(out') : IsReconnectRequest(out'[i], c))
                => recoverable /\ n < MAX_RECONNECT_ATTEMPTS]_vars

(* the fourth recoverable error on a connection has just removed it *)
RecoveryAttemptsCappedWitness ==
  \E c \in DOMAIN ws \ clients :
    /\ Trigger(out).ev = "error" /\ Trigger(out).c = c
    /\ isRecoverableConnectionError(Trigger(out).err)
    /\ \E i \in 1..Len(out) : out[i] = [ev |-> "delete", c |-> c]

(* C20: a recoverable socket error on a registered open connection that has
   a session id and fewer than MAX_RECONNECT_ATTEMPTS earlier attempts writes
   a snapshot for that session id to the store and sends the connection an
   error frame with reconnect = TRUE and that session id. *)
RecoverableErrorPreserves ==
  [][\A c \in clients :
       ( /\ Trigger(out').ev = "error" /\ Trigger(out').c = c
         /\ isRecoverableConnectionError(Trigger(out').err)
         /\ cobj[c].sessionId # NoSession
         /\ cobj[c].reconnectAttempts < MAX_RECONNECT_ATTEMPTS
         /\ ws[c] = "OPEN" )
       => LET sid == cobj[c].sessionId
          IN  /\ \E i \in 1..Len(out') :
                   out'[i] = [ev |-> "preserve", sid |-> sid, c |-> c]
              /\ sid \in DOMAIN sessions'
              /\ \E i \in 1..Len(out') :
                   /\ IsReconnectRequest(out'[i], c)
                   /\ out'[i].msg.payload.sessionId = sid]_vars

(* C21: every reconnect request sent to a connection carries a delay hint
   of RECONNECT_BASE_DELAY * 2^(n - 1) ms, n being the connection's attempt
   number after the error: 1000, 2000, 4000 ms for attempts 1, 2, 3. *)
ReconnectDelayExponential ==
  [][\A c \in clients :
       \A i \in 1..Len(out') :
         IsReconnectRequest(out'[i], c)
           => out'[i].msg.payload.delay =
                RECONNECT_BASE_DELAY * 2 ^ (cobj'[c].reconnectAttempts - 1)]_vars

(* C22: every construction of the server on a port that another process
   holds fails with a ConnectionError whose code is PORT_IN_USE, thrown to
   the caller of the constructor. *)
PortInUseIsTyped ==
  \A i \in 1..Len(startup.calls) :
    startup.calls[i].port \in startup.busy
      => startup.calls[i].thrown = [class |-> "ConnectionError", code |-> "PORT_IN_USE"]

(* C23: when generate resolves or rejects for a connection that has been
   removed from the registry in the meantime, the step sends no frame to any
   connection and leaves the registry and the sockets as they were. *)
LateReplyIsDropped ==
  [][\A c \in DOMAIN ws \ clients :
       ( /\ Trigger(out').ev \in {"resolved", "rejected"}
         /\ Trigger(out').c = c )
       => /\ \A i \in 1..Len(out') : out'[i].ev # "send"
          /\ clients' = clients
          /\ ws' = ws]_vars

(* generate has just resolved for a connection that closed while the call
   was pending, while another connection was open *)
LateReplyIsDroppedWitness ==
  \E c \in DOMAIN ws \ clients :
    /\ Trigger(out).ev = "resolved" /\ Trigger(out).c = c
    /\ ws[c] = "DONE"
    /\ \E k \in clients : ws[k] = "OPEN"

(* the connections that trace o sends a frame of the given type to *)
Recipients(o, type) ==
  {o[i].to : i \in {j \in 1..Len(o) : o[j].ev = "send" /\ o[j].msg.type = type}}

(* C24: a broadcast (the thinking_state frames of a document_focus and of
   its timer, and the document_set_update of a document_focus for a document
   id) is sent to exactly the connections that are registered with an OPEN
   socket; it removes no connection from the registry and changes no
   socket. *)
BroadcastReachesOpen ==
  [][LET e == Trigger(out')
         open == {k \in clients : ws[k] = "OPEN"}
         focus == /\ e.ev = "message" /\ e.c \in clients /\ e.m.valid
                  /\ e.m.type = "document_focus" /\ e.m.hasPayload
     IN  /\ (e.ev = "timeout" \/ focus)
              => /\ Recipients(out', "thinking_state") = open
                 /\ clients' = clients
                 /\ ws' = ws
         /\ (focus /\ e.m.documentId # NoDoc)
              => Recipients(out', "document_set_update") = open]_vars

(* the timer of a document_focus has just fired while one registered
   connection was open and another was closing: one frame was sent *)
BroadcastReachesOpenWitness ==
  /\ Trigger(out).ev = "timeout"
  /\ Len(out) = 2
  /\ \E k \in clients : ws[k] = "CLOSING"
  /\ \E k \in clients : ws[k] = "OPEN"

(* C25: a reconnect frame that names a session S of the store, handled on a
   registered connection, replaces the agent's state with the agentState
   stored for S, and the state the agent then has is the snapshot taken at
   S's last preserve: it holds nothing written after that preserve, whose
   time is S's createdAt (no generate activity and no Selection entry is
   later than it). *)
ReconnectRestoresSnapshot ==
  [][\A c \in clients, sid \in DOMAIN sessions :
       Trigger(out') = [ev |-> "message", c |-> c, m |-> Reconnect(sid)]
       => IF impl = "LG"
          THEN /\ \E i \in 1..Len(out') : out'[i] = [ev |-> "setState", sid |-> sid]
               /\ agent'.lastActivity <= sessions[sid].createdAt
          ELSE /\ agentState' = sessions[sid].agentState
               /\ \A i \in 1..Len(Selection') :
                    Selection'[i].lastModified <= sessions[sid].createdAt]_vars

(* the positions of trace o at which a snapshot is written for session sid *)
Preserves(o, sid) == {i \in 1..Len(o) : o[i].ev = "preserve" /\ o[i].sid = sid}

(* C26: a user_message frame handled on a registered connection writes the
   connection's session to the store exactly once, before generate is
   invoked, and the store then holds that snapshot; when generate resolves
   while the connection is registered, the session is written exactly once
   more, after the agent_message is sent; and while a generate call is
   pending the session of its connection leaves the store only by a sweep
   that finds it older than SESSION_EXPIRY. *)
PreserveAroundGenerate ==
  /\ [][\A i \in 1..Len(pending) :
          LET sid == cobj[pending[i].c].sessionId
          IN  (sid \in DOMAIN sessions /\ sid \notin DOMAIN sessions')
                => Swept(out') /\ now - sessions[sid].lastActive > SESSION_EXPIRY]_vars
  /\ [][\A c \in clients :
          /\ ( /\ IsMessage(Trigger(out'), c, "user_message")
               /\ Trigger(out').m.hasPayload )
             => LET sid == cobj'[c].sessionId
                IN  /\ Cardinality(Preserves(out', sid)) = 1
                    /\ \A i \in Preserves(out', sid) :
                         \E j \in (i + 1)..Len(out') :
                           out'[j] = [ev |-> "generate", c |-> c]
                    /\ sid \in DOMAIN sessions'
                    /\ sessions'[sid].createdAt = now
          /\ ( /\ Trigger(out').ev = "resolved" /\ Trigger(out').c = c )
             => LET sid == cobj[c].sessionId
                IN  /\ Cardinality(Preserves(out', sid)) = 1
                    /\ \A i \in Preserves(out', sid), j \in 1..Len(out') :
                         (out'[j].ev = "send" /\ out'[j].msg.type = "agent_message")
                           => j < i
                    /\ sid \in DOMAIN sessions'
                    /\ sessions'[sid].createdAt = now]_vars

(* generate has just resolved for an open connection: the reply was sent and
   the session, first written before the call, was written again *)
PreserveAroundGenerateWitness ==
  \E c \in clients :
    /\ Trigger(out).ev = "resolved" /\ Trigger(out).c = c
    /\ \E i, j \in 1..Len(out) :
         /\ i < j
         /\ out[i].ev = "send" /\ out[i].to = c /\ out[i].msg.type = "agent_message"
         /\ out[j] = [ev |-> "preserve", sid |-> cobj[c].sessionId, c |-> c]
    /\ sessions[cobj[c].sessionId].createdAt > 0

(* what the store holds for session s, with the references followed: the
   adapter's state object (LangGraph), or the stored agentState with its
   currentSelection array (MCP) *)
StoredValue(ss, arr, ag, s) ==
  IF impl = "LG" THEN ag
  ELSE [ss[s].agentState EXCEPT !.currentSelection = arr[@]]

(* C27: the agentState the store holds for a session changes only when a
   snapshot is written for that session id, and nothing changes it in the
   rest of the step that wrote it: generate calls and Selection changes
   after the preserve leave the stored value as it was. *)
SnapshotIsImmutable ==
  [][\A s \in DOMAIN sessions \cap DOMAIN sessions' :
       StoredValue(sessions', arrays', agent', s) # StoredValue(sessions, arrays, agent, s)
         => \E i \in Preserves(out', s) :
              \A j \in (i + 1)..Len(out') : out'[j].ev # "generate"]_vars

(* C28: while a generate call is pending, a frame that arrives on the
   calling connection or on another one is handled in the step in which it
   arrives and leaves the call pending: a pong sets isAlive, a frame of an
   undispatched type is answered with an error frame; and a heartbeat tick
   that finds a connection with a pending call alive neither terminates nor
   removes it. *)
FramesNotSerialized ==
  [][pending # <<>> =>
       \A k \in clients :
         /\ IsMessage(Trigger(out'), k, "pong")
              => cobj'[k].isAlive /\ pending' = pending
         /\ ( /\ IsMessage(Trigger(out'), k, "agent_message")
              /\ ws[k] = "OPEN" )
              => /\ \E i \in 1..Len(out') :
                      out'[i].ev = "send" /\ out'[i].to = k /\ out'[i].msg.type = "error"
                 /\ pending' = pending
         /\ ( /\ Trigger(out').ev = "heartbeat"
              /\ cobj[k].isAlive
              /\ \E i \in 1..Len(pending) : pending[i].c = k )
              => /\ k \in clients'
                 /\ \A i \in 1..Len(out') :
                      out'[i].ev \in {"terminate", "delete"} => out'[i].c # k
                 /\ pending' = pending]_vars

(* a pong has just been handled on a connection whose generate call is
   pending, while a second connection is open *)
FramesNotSerializedWitness ==
  /\ \E k \in clients :
       /\ IsMessage(Trigger(out), k, "pong")
       /\ cobj[k].isAlive
       /\ \E i \in 1..Len(pending) : pending[i].c = k
  /\ Cardinality({k \in clients : ws[k] = "OPEN"}) = 2

(* C29: every frame that arrives on a registered connection, whether it
   parses or not and whatever its type, sets the connection's lastActive to
   the time of receipt. *)
EveryFrameRefreshesLastActive ==
  [][\A c \in clients :
       (Trigger(out').ev = "message" /\ Trigger(out').c = c /\ c \in clients')
         => cobj'[c].lastActive = now]_vars

(* C30: the frames of one connection are dispatched in the order they
   arrived: the frame a "message" step handles is the oldest frame of that
   socket not yet handled, the later ones stay queued in their order, and the
   step runs the handler up to its first suspension point, so that a user
   message's generate call is pending behind the calls of all earlier frames
   before the next frame is handled; frames of other connections are not
   touched and no order among connections is required. *)
DispatchInArrivalOrder ==
  [][\A c \in DOMAIN inbox :
       (Trigger(out').ev = "message" /\ Trigger(out').c = c) =>
         LET m == Trigger(out').m
         IN  /\ inbox[c] # <<>>
             /\ m = Head(inbox[c])
             /\ inbox'[c] = Tail(inbox[c])
             /\ \A k \in DOMAIN inbox \ {c} : inbox'[k] = inbox[k]
             /\ IF m.valid /\ m.type = "user_message" /\ m.hasPayload
                   /\ c \in clients
                THEN /\ pending' = Append(pending,
                                          [c |-> c, requestId |-> m.requestId])
                     /\ out'[Len(out')].ev = "generate"
                ELSE pending' = pending]_vars

DispatchInArrivalOrderWitness ==
  /\ Trigger(out).ev = "message"
  /\ Trigger(out).m = UserMessage(1)
  /\ \E c \in DOMAIN inbox :
       /\ Trigger(out).c = c
       /\ inbox[c] = <<UserMessage(2)>>
       /\ pending = <<[c |-> c, requestId |-> 1]>>

(* the "send" effects of trace o *)
Sends(o) == SelectSeq(o, LAMBDA e : e.ev = "send")

(* C31: every handled document_focus arms one timer for its documentId, and
   that timer eventually fires exactly once: the firing sends one
   thinking_state "completed" frame for that documentId to each connection
   that is registered and open at that moment (whenever it was accepted) and
   to nobody else, and it fires without error, touching no connection, also
   when the connection that sent the document_focus is gone. *)
FocusTimerCompletes ==
  /\ [][LET e == Trigger(out')
         IN  /\ (/\ e.ev = "message" /\ e.c \in clients /\ e.m.valid
                 /\ e.m.type = "document_focus" /\ e.m.hasPayload)
                  => timers' = Append(timers, e.m.documentId)
             /\ e.ev = "timeout"
                  => /\ timers # <<>> /\ e.d = Head(timers)
                     /\ timers' = Tail(timers)
                     /\ Len(out') = 1 + Len(Sends(out'))
                     /\ Len(Sends(out')) =
                          Cardinality({k \in clients : ws[k] = "OPEN"})
                     /\ \A i \in 2..Len(out') :
                          /\ out'[i].to \in clients /\ ws[out'[i].to] = "OPEN"
                          /\ out'[i].msg = ThinkingState(e.d, "completed")
                          /\ \A j \in 2..Len(out') :
                               out'[j].to = out'[i].to => j = i
                     /\ clients' = clients /\ cobj' = cobj /\ ws' = ws
             /\ (e.ev # "timeout" /\ timers # <<>>)
                  => (Len(timers') >= Len(timers)
                        /\ SubSeq(timers', 1, Len(timers)) = timers)]_vars
  /\ \A d \in 0..PairDocs :
       (timers # <<>> /\ Head(timers) = d)
         ~> (Trigger(out).ev = "timeout" /\ Trigger(out).d = d)

(* the timer of a document_focus has fired after the first connection was
   removed: the second connection, which is open, was sent the frame *)
FocusTimerCompletesWitness ==
  /\ Trigger(out).ev = "timeout"
  /\ 1 \notin clients /\ ws[1] = "DONE"
  /\ Sends(out) = <<[ev |-> "send", to |-> 2,
                     msg |-> ThinkingState(Trigger(out).d, "completed")]>>
  /\ Trigger(out).d # NoDoc

(* C32: a connection is accepted without a sessionId; the first user_message
   it handles mints one (the clock value) and associates it; afterwards the
   sessionId of a registered connection changes only in the step that handles
   a reconnect frame of that connection: later user_message frames,
   document_focus frames, pongs, replies of generate, timers and frames of
   other connections leave it as it is. *)
SessionIdSetOnce ==
  [][/\ \A c \in clients' \ clients : cobj'[c].sessionId = NoSession
     /\ \A c \in clients \cap clients' :
          LET e == Trigger(out')
              old == cobj[c].sessionId
              new == cobj'[c].sessionId
              mine == e.ev = "message" /\ e.c = c /\ e.m.valid
          IN  /\ new # old
                   => /\ mine
                      /\ \/ e.m.type = "reconnect"
                         \/ e.m.type = "user_message" /\ old = NoSession
              /\ (mine /\ e.m.type = "user_message" /\ e.m.hasPayload
                    /\ old = NoSession)
                   => new = now /\ new # NoSession]_vars

(* a connection that minted its session at an earlier clock value has just
   handled another user_message and still has that session id *)
SessionIdSetOnceWitness ==
  /\ Trigger(out).ev = "message"
  /\ Trigger(out).m = UserMessage(1)
  /\ Trigger(out).c \in clients
  /\ cobj[Trigger(out).c].sessionId \notin {NoSession, now}
  /\ out[Len(out)].ev = "generate"

(* what a socket error denotes, by its OS error code or by its message *)
Denotes(err) ==
  IF err \in {ErrReset} THEN "reset"
  ELSE IF err \in {ErrRefused, ErrRefusedText} THEN "refused"
  ELSE IF err \in {ErrTimedOut, ErrTimeoutText} THEN "timeout"
  ELSE "other"

(* C33: every socket error that denotes a connection reset, a refused
   connection or a timeout, whether it is identified by its OS error code
   (ECONNRESET, ECONNREFUSED, ETIMEDOUT) or by its message, is classified as
   recoverable, and on a registered connection it enters the recovery path:
   the connection's reconnect attempt is counted, or the connection is given
   up and removed. *)
ResetRefusedTimeoutRecoverable ==
  [][LET e == Trigger(out')
     IN  (e.ev = "error" /\ Denotes(e.err) \in {"reset", "refused", "timeout"})
           => /\ isRecoverableConnectionError(e.err)
              /\ (e.c \in clients /\ e.c \in clients')
                   => cobj'[e.c].reconnectAttempts
                        = cobj[e.c].reconnectAttempts + 1]_vars

(* the step handles a frame on registered connection c that mints a session
   id: a user_message without a session, or a reconnect whose session is not
   found and is replaced by a new one *)
Mints(c) ==
  LET e == Trigger(out')
  IN  /\ e.ev = "message" /\ e.c = c /\ e.m.valid /\ c \in clients
      /\ \/ /\ e.m.type = "user_message" /\ e.m.hasPayload
            /\ cobj[c].sessionId = NoSession
         \/ /\ e.m.type = "reconnect" /\ e.m.sessionId # NoSession
            /\ e.m.sessionId \notin DOMAIN sessions
            /\ cobj'[c].sessionId # cobj[c].sessionId

(* C34: a session id minted for a connection (by its first user_message or by
   a reconnect that is not found) is new: no other registered connection has
   it and the store holds no session under it, also when another connection
   minted at the same clock value; so the minting connection's preserve
   overwrites no other connection's stored session. *)
MintedSessionIdIsFresh ==
  [][\A c \in clients :
       Mints(c) =>
         /\ \A k \in clients \ {c} : cobj[k].sessionId # cobj'[c].sessionId
         /\ cobj'[c].sessionId \notin DOMAIN sessions]_vars

(* C35: a document_set_update frame sent to a connection that has a
   sessionId carries that sessionId in payload.session, never the session id
   that was minted for or restored by another connection. *)
DocumentSetCarriesOwnSession ==
  [][\A i \in 1..Len(out') :
       (/\ out'[i].ev = "send"
        /\ out'[i].msg.type = "document_set_update"
        /\ out'[i].to \in clients'
        /\ cobj'[out'[i].to].sessionId # NoSession)
         => out'[i].msg.payload.session.id = cobj'[out'[i].to].sessionId]_vars

(* C36: in every reachable state the sessionId of each registered connection
   is a key of the session store: no sweep and no other step removes a
   session while a connection associated with it is registered. *)
RegisteredSessionIsStored ==
  \A c \in clients :
    cobj[c].sessionId # NoSession => cobj[c].sessionId \in DOMAIN sessions

(* C37: the Selection and the UserFocus change only in a step that handles a
   document_focus frame of a registered connection: user_message handling and
   the replies of generate, pongs, reconnects, connects, timers, socket
   errors and closes leave both as they are. *)
OnlyFocusChangesSelection ==
  [][(Selection' # Selection \/ agentState'.userFocus # agentState.userFocus)
       => LET e == Trigger(out')
          IN  /\ e.ev = "message" /\ e.c \in clients /\ e.m.valid
              /\ e.m.type = "document_focus" /\ e.m.hasPayload]_vars

(* the terminal replies of trace o: its agent_message and error frames *)
Terminals(o) ==
  SelectSeq(o, LAMBDA e : e.ev = "send" /\ e.msg.type \in {"agent_message", "error"})

(* C38: a user_message handled on a registered connection gets exactly one
   terminal reply when its generate call settles and the connection is still
   registered and open: handling it sends no terminal reply and suspends one
   call; the step in which that call settles removes it and sends one frame
   to that connection with the call's requestId, an agent_message if generate
   resolved and an error if it rejected, never both and never two; and no
   other step sends an agent_message or error frame with a requestId except
   in reply to the frame it handles. *)
OneTerminalReply ==
  [][LET e == Trigger(out')
         handled == /\ e.ev = "message" /\ e.c \in clients /\ e.m.valid
                    /\ e.m.type = "user_message" /\ e.m.hasPayload
         settled == e.ev \in {"resolved", "rejected"}
     IN  /\ handled
              => /\ Terminals(out') = <<>>
                 /\ pending' = Append(pending, [c |-> e.c,
                                                requestId |-> e.m.requestId])
         /\ settled
              => /\ Len(pending') = Len(pending) - 1
                 /\ (e.c \in clients /\ ws[e.c] = "OPEN")
                      => /\ Len(Terminals(out')) = 1
                         /\ Terminals(out')[1].to = e.c
                         /\ Terminals(out')[1].msg.requestId = e.requestId
                         /\ Terminals(out')[1].msg.type =
                              IF e.ev = "resolved" THEN "agent_message"
                              ELSE "error"
         /\ (~handled /\ ~settled)
              => /\ pending' = pending
                 /\ \A i \in 1..Len(Terminals(out')) :
                      Terminals(out')[i].msg.requestId # NoRequest
                        => /\ e.ev = "message"
                           /\ Terminals(out')[i].to = e.c
                           /\ Terminals(out')[i].msg.requestId = e.m.requestId]_vars

(* the generate call of request 1 has just resolved on a connection that is
   registered and open: one agent_message with requestId 1 was sent *)
OneTerminalReplyWitness ==
  /\ Trigger(out).ev = "resolved"
  /\ Trigger(out).requestId = 1
  /\ Trigger(out).c \in clients /\ ws[Trigger(out).c] = "OPEN"
  /\ Len(Terminals(out)) = 1
  /\ Terminals(out)[1].msg.type = "agent_message"
  /\ Terminals(out)[1].msg.requestId = 1
  /\ pending = <<>>

(* C39: the agent_message replies to two user messages of one connection are
   sent in the order the messages arrived, whatever order their generate
   calls settle in: a step that sends the reply of a call sends it for the
   oldest call of that connection that is still suspended. *)
RepliesInArrivalOrder ==
  [][LET e == Trigger(out')
     IN  (e.ev = "resolved" /\ Len(Terminals(out')) = 1)
           => \E i \in 1..Len(pending) :
                /\ pending[i] = [c |-> e.c, requestId |-> e.requestId]
                /\ \A j \in 1..(i - 1) : pending[j].c # e.c
                /\ pending' = RemoveAt(pending, i)]_vars

(* C40: a reconnect frame without a sessionId, handled on a registered
   connection, is answered with one error frame that names reconnect as an
   unsupported message type (when the socket is open); the connection's
   sessionId, the session store and the agent state are left as they were
   and the connection stays registered. *)
ReconnectWithoutSessionIsUnsupported ==
  [][\A c \in clients :
       (/\ IsMessage(Trigger(out'), c, "reconnect")
        /\ Trigger(out').m.sessionId = NoSession)
         => /\ Sends(out') =
                 IF ws[c] = "OPEN"
                 THEN <<[ev |-> "send", to |-> c,
                         msg |-> ErrorFrame(Trigger(out').m.requestId,
                                            [message |-> "Unsupported message type",
                                             type |-> "reconnect"])]>>
                 ELSE <<>>
            /\ Len(out') = 1 + Len(Sends(out'))
            /\ clients' = clients
            /\ cobj'[c].sessionId = cobj[c].sessionId
            /\ sessions' = sessions
            /\ agentState' = agentState /\ arrays' = arrays /\ agent' = agent
            /\ pending' = pending]_vars

(* a connection that has a session has just sent a reconnect frame without a
   sessionId and was sent the error; its session is still in the store *)
ReconnectWithoutSessionIsUnsupportedWitness ==
  /\ Trigger(out).ev = "message"
  /\ Trigger(out).m = Reconnect(NoSession)
  /\ Trigger(out).c \in clients
  /\ cobj[Trigger(out).c].sessionId \in DOMAIN sessions
  /\ Len(out) = 2
  /\ out[2].ev = "send" /\ out[2].msg.type = "error"

====
